---- MODULE Spec2Model ----
(***************************************************************************)
(* Task-Management server: the user store, the task store, the bearer      *)
(* tokens in circulation and the HTTP handlers of the three routers        *)
(* (/api/auth, /api/tasks, /api/users), one action per handler.  Every     *)
(* handler runs behind the middleware the router puts in front of it.      *)
(***************************************************************************)
EXTENDS Integers, Sequences, FiniteSets, TLC

\* ---------------------------------------------------------------- bounds
MaxUsers == 2
MaxTasks == 2
MaxTime == 2
DayLen == 2

\* ------------------------------------------------------ program constants
ExpiresInDays == 7
DefaultLimit == 10
DefaultPage == 1

\* ------------------------------------------------------- value encodings
\* ObjectIds are positive integers handed out in creation order.
NoId == 0
InvalidId == -1
NullDate == -1
NoDate == -2
Undef == "undefined"

UserIds == 1..MaxUsers
TaskIds == 1..MaxTasks

Statuses == {"pending", "in-progress", "completed", "cancelled"}
Priorities == {"low", "medium", "high", "urgent"}
Roles == {"user", "admin"}

\* A request string: its letters b, whether it carries upper-case letters
\* and whether it carries surrounding whitespace.
Str(b) == [b |-> b, up |-> FALSE, pad |-> FALSE]
UndefStr == Str(Undef)
EmptyStr == Str("")
Trim(s) == [s EXCEPT !.pad = FALSE]
Lowercase(s) == [s EXCEPT !.up = FALSE]
Truthy(s) == s.b # Undef /\ s.b # ""

\* A JSON value of a request body where the schema expects a boolean.
JTrue == [t |-> "bool", v |-> "true"]
JFalse == [t |-> "bool", v |-> "false"]
JStrFalse == [t |-> "string", v |-> "false"]
JUndef == [t |-> "undefined", v |-> ""]

VARIABLES users, tasks, nextUserId, nextTaskId, tokens, now, resp, calls

vars == <<users, tasks, nextUserId, nextTaskId, tokens, now, resp, calls>>
store == <<users, tasks, nextUserId, nextTaskId>>

\* calls: the requests in flight whose handler reads, awaits and then
\* writes, one per connection. A request is "checked" once it has read the
\* record and passed its checks and "done" once it has written and
\* answered; op is its handler, doc the document it read, saw the number of
\* writes that had been made when it read, seq its place in the order of
\* the writes.
Conns == {"a", "b"}
NoUpdate == [dueDate |-> NoDate, priority |-> Undef, status |-> Undef, assignedTo |-> NoId]
NoTask ==
    [title |-> [b |-> "", up |-> FALSE, pad |-> FALSE], dueDate |-> NoDate,
     status |-> Undef, priority |-> Undef, createdBy |-> NoId, assignedTo |-> NoId,
     completedAt |-> NullDate, notes |-> <<>>]
Idle ==
    [phase |-> "idle", op |-> "none", actor |-> NoId, id |-> NoId, in |-> NoUpdate,
     doc |-> NoTask, saw |-> 0, seq |-> 0, kind |-> "none"]

\* ------------------------------------------------------------- responses
\* resp is the last response sent: the handler, the credential presented,
\* the user the request ran as, the id addressed (for listTasks the
\* assignedTo filter supplied), the HTTP status, the outcome class and the
\* ids of the records returned.
\* A list response also carries the query it answers and the pagination
\* block computed for it.
NoQuery == [page |-> 0, limit |-> 0]
NoPagination ==
    [currentPage |-> 0, totalPages |-> 0, total |-> 0, hasNext |-> FALSE,
     hasPrev |-> FALSE]

Answer(op, cred, actor, id, code, kind, list) ==
    resp' = [op |-> op, cred |-> cred, actor |-> actor, id |-> id,
             code |-> code, kind |-> kind, list |-> list,
             query |-> NoQuery, pagination |-> NoPagination, isOverdue |-> <<>>,
             errors |-> {}]

\* Math.ceil(total / limit) for limit >= 1.
Ceil(total, limit) == (total + limit - 1) \div limit

PaginationRoundsDown(page, limit, total) ==
    [currentPage |-> page, totalPages |-> total \div limit, total |-> total,
     hasNext |-> page < total \div limit, hasPrev |-> page > 1]

Pagination(page, limit, total) ==
    [currentPage |-> page, totalPages |-> Ceil(total, limit), total |-> total,
     hasNext |-> page < Ceil(total, limit), hasPrev |-> page > 1]

\* isOverdue: the virtual of each task returned, as serialised on a read.
ReplyPage(op, cred, actor, id, list, query, total, isOverdue) ==
    /\ resp' = [op |-> op, cred |-> cred, actor |-> actor, id |-> id,
                code |-> 200, kind |-> "Ok", list |-> list, query |-> query,
                pagination |-> Pagination(query.page, query.limit, total),
                isOverdue |-> isOverdue, errors |-> {}]
    /\ UNCHANGED calls

ReplyTasks(op, cred, actor, id, list, isOverdue) ==
    /\ resp' = [op |-> op, cred |-> cred, actor |-> actor, id |-> id,
                code |-> 200, kind |-> "Ok", list |-> list, query |-> NoQuery,
                pagination |-> NoPagination, isOverdue |-> isOverdue,
                errors |-> {}]
    /\ UNCHANGED calls

\* A handler that runs from request to response while nothing else runs.
Reply(op, cred, actor, id, code, kind, list) ==
    /\ Answer(op, cred, actor, id, code, kind, list)
    /\ UNCHANGED calls

Fail(op, cred, actor, id, code, kind) ==
    /\ Reply(op, cred, actor, id, code, kind, <<>>)
    /\ UNCHANGED <<store, tokens, now>>

\* A 400 of a handler that creates a record: errors is the set of fields
\* its message, or its list of validator messages, names.
AnswerErrors(op, cred, actor, id, errors) ==
    resp' = [op |-> op, cred |-> cred, actor |-> actor, id |-> id,
             code |-> 400, kind |-> "Validation", list |-> <<>>,
             query |-> NoQuery, pagination |-> NoPagination,
             isOverdue |-> <<>>, errors |-> errors]

FailWith(op, cred, actor, id, errors) ==
    /\ AnswerErrors(op, cred, actor, id, errors)
    /\ UNCHANGED <<store, tokens, now, calls>>

\* ---------------------------------------------------------- schema hooks
UsernameSetter(s) == Trim(s)
EmailSetter(s) == Lowercase(Trim(s))
\* bcrypt reads the first 72 bytes of a password and no more. "p72+a" and
\* "p72+b" are two passwords of 73 bytes with the same first 72, "p72".
First72(p) == IF p \in {"p72+a", "p72+b"} THEN "p72" ELSE p
BcryptHash(p) == [alg |-> "bcrypt", rounds |-> 12, of |-> First72(p)]
ComparePassword(p, digest) == digest.of = First72(p)

CastBoolean(j) ==
    IF j.v = "true" THEN TRUE ELSE FALSE

DueDateValidator(value) == value >= now - (now % DayLen)

\* taskSchema.virtual('isOverdue'), computed when a task is serialised.
IsOverdueIgnoresStatus(task) == now > task.dueDate

IsOverdue(task) ==
    IF task.status = "completed" THEN FALSE ELSE now > task.dueDate

Overdue(list) == [i \in 1..Len(list) |-> IsOverdue(tasks[list[i]])]

\* taskSchema.pre('save'): completedAt follows a modified status.
PreSave(modified, doc) ==
    IF modified
    THEN IF doc.status = "completed" /\ doc.completedAt = NullDate
         THEN [doc EXCEPT !.completedAt = now]
         ELSE IF doc.status # "completed"
              THEN [doc EXCEPT !.completedAt = NullDate]
              ELSE doc
    ELSE doc

\* ------------------------------------------------------------ middleware
NoCred == [kind |-> "none", sig |-> FALSE, sub |-> NoId, iat |-> 0]
Bearer(t) == [kind |-> "bearer", sig |-> TRUE, sub |-> t.sub, iat |-> t.iat]
Forged(u) == [kind |-> "bearer", sig |-> FALSE, sub |-> u, iat |-> 0]

GenerateToken(userId) == [sub |-> userId, iat |-> now]

JwtVerifyNeverExpires(cred) ==
    IF ~cred.sig THEN "JsonWebTokenError" ELSE "ok"

JwtVerify(cred) ==
    IF ~cred.sig THEN "JsonWebTokenError"
    ELSE IF now >= cred.iat + ExpiresInDays * DayLen THEN "TokenExpiredError"
    ELSE "ok"

\* auth: the user the request runs as, or the 401 that ends it.
AuthSkipsActiveCheck(cred) ==
    IF cred.kind = "none" \/ JwtVerify(cred) # "ok" \/ cred.sub \notin DOMAIN users
    THEN [code |-> 401, user |-> NoId]
    ELSE [code |-> 200, user |-> cred.sub]

Auth(cred) ==
    IF cred.kind = "none" THEN [code |-> 401, user |-> NoId]
    ELSE IF JwtVerify(cred) # "ok" THEN [code |-> 401, user |-> NoId]
    ELSE IF cred.sub \notin DOMAIN users THEN [code |-> 401, user |-> NoId]
    ELSE IF ~users[cred.sub].isActive THEN [code |-> 401, user |-> NoId]
    ELSE [code |-> 200, user |-> cred.sub]

\* adminAuth, after auth.
AdminAuthAllowsAll(user) == 200

AdminAuth(user) ==
    IF user = NoId THEN 401
    ELSE IF users[user].role # "admin" THEN 403
    ELSE 200

\* ------------------------------------------------------------ the stores
Remove(f, k) == [x \in DOMAIN f \ {k} |-> f[x]]
Insert(f, k, v) == [x \in DOMAIN f \cup {k} |-> IF x = k THEN v ELSE f[x]]

IsValidObjectId(id) == id # InvalidId

IsAdmin(user) == users[user].role = "admin"

\* ---------------------------------------------------- /api/tasks handlers
\* The permission check of getTaskById, updateTask and updateTaskStatus.
MayAccess(user, task) ==
    ~(~IsAdmin(user) /\ task.assignedTo # user /\ task.createdBy # user)

\* The permission check of deleteTask.
MayDeleteLikeAccess(user, task) ==
    IsAdmin(user) \/ task.createdBy = user \/ task.assignedTo = user

MayDelete(user, task) ==
    ~(~IsAdmin(user) /\ task.createdBy # user)

TaskValidationErrors(status, priority, dueDate) ==
    {e \in {"status", "priority", "dueDate"} :
        \/ e = "status" /\ status # Undef /\ status \notin Statuses
        \/ e = "priority" /\ priority # Undef /\ priority \notin Priorities
        \/ e = "dueDate" /\ dueDate # NoDate /\ ~DueDateValidator(dueDate)}

\* 'Title, description, and due date are required': one message for the
\* three fields, whichever of them is missing.
RequiredOfTask == {"title", "description", "dueDate"}

CreateTask(cred, in) ==
    LET a == Auth(cred)
        op == "createTask"
        assignedUser == IF in.assignedTo # NoId THEN in.assignedTo ELSE a.user
        priority == IF in.priority # Undef THEN in.priority ELSE "medium"
        doc == [title |-> Trim(in.title), dueDate |-> in.dueDate,
                status |-> "pending", priority |-> priority,
                createdBy |-> a.user, assignedTo |-> assignedUser,
                completedAt |-> NullDate, notes |-> <<>>]
    IN  /\ IF a.code # 200 THEN Fail(op, cred, NoId, NoId, 401, "Unauthorized")
           ELSE IF ~Truthy(in.title) \/ in.dueDate = NoDate
           THEN FailWith(op, cred, a.user, NoId, RequiredOfTask)
           ELSE IF in.assignedTo # NoId /\ ~IsValidObjectId(in.assignedTo)
           THEN Fail(op, cred, a.user, NoId, 500, "Unexpected")
           ELSE IF in.assignedTo # NoId /\ in.assignedTo \notin DOMAIN users
           THEN FailWith(op, cred, a.user, NoId, {"assignedTo"})
           ELSE IF TaskValidationErrors(Undef, priority, in.dueDate) # {}
           THEN FailWith(op, cred, a.user, NoId,
                         TaskValidationErrors(Undef, priority, in.dueDate))
           ELSE /\ nextTaskId <= MaxTasks
                /\ tasks' = Insert(tasks, nextTaskId, PreSave(FALSE, doc))
                /\ nextTaskId' = nextTaskId + 1
                /\ Reply(op, cred, a.user, nextTaskId, 201, "Ok", <<nextTaskId>>)
                /\ UNCHANGED <<users, nextUserId, tokens, now>>

\* createTask as requests interleave: auth and the assignee lookup read
\* the users, and task.save() inserts after an await.
CreateTaskCheck(c, cred, in) ==
    LET a == Auth(cred)
        op == "createTask"
    IN  /\ calls[c].phase = "idle"
        /\ IF a.code # 200 THEN Fail(op, cred, NoId, NoId, 401, "Unauthorized")
           ELSE IF ~Truthy(in.title) \/ in.dueDate = NoDate
           THEN FailWith(op, cred, a.user, NoId, RequiredOfTask)
           ELSE IF in.assignedTo # NoId /\ ~IsValidObjectId(in.assignedTo)
           THEN Fail(op, cred, a.user, NoId, 500, "Unexpected")
           ELSE IF in.assignedTo # NoId /\ in.assignedTo \notin DOMAIN users
           THEN FailWith(op, cred, a.user, NoId, {"assignedTo"})
           ELSE /\ calls' = [calls EXCEPT ![c] =
                                [phase |-> "checked", op |-> op, actor |-> a.user,
                                 id |-> NoId, in |-> in, doc |-> NoTask,
                                 saw |-> 0, seq |-> 0, kind |-> "none"]]
                /\ UNCHANGED <<store, tokens, now, resp>>

CreateTaskSave(c) ==
    LET r == calls[c]
        op == "createTask"
        assignedUser == IF r.in.assignedTo # NoId THEN r.in.assignedTo ELSE r.actor
        priority == IF r.in.priority # Undef THEN r.in.priority ELSE "medium"
        doc == [title |-> Trim(r.in.title), dueDate |-> r.in.dueDate,
                status |-> "pending", priority |-> priority,
                createdBy |-> r.actor, assignedTo |-> assignedUser,
                completedAt |-> NullDate, notes |-> <<>>]
        Done(kind) == calls' = [calls EXCEPT ![c].phase = "done", ![c].kind = kind]
    IN  /\ r.phase = "checked" /\ r.op = op
        /\ UNCHANGED <<users, nextUserId, tokens, now>>
        /\ IF TaskValidationErrors(Undef, priority, r.in.dueDate) # {}
           THEN /\ AnswerErrors(op, NoCred, r.actor, NoId,
                                 TaskValidationErrors(Undef, priority, r.in.dueDate))
                /\ Done("Validation")
                /\ UNCHANGED <<tasks, nextTaskId>>
           ELSE /\ nextTaskId <= MaxTasks
                /\ tasks' = Insert(tasks, nextTaskId, PreSave(FALSE, doc))
                /\ nextTaskId' = nextTaskId + 1
                /\ Answer(op, NoCred, r.actor, nextTaskId, 201, "Ok", <<nextTaskId>>)
                /\ Done("Ok")

GetTaskById(cred, id) ==
    LET a == Auth(cred)
        op == "getTask"
    IN  IF a.code # 200 THEN Fail(op, cred, NoId, id, 401, "Unauthorized")
        ELSE IF ~IsValidObjectId(id) THEN Fail(op, cred, a.user, id, 400, "Validation")
        ELSE IF id \notin DOMAIN tasks THEN Fail(op, cred, a.user, id, 404, "NotFound")
        ELSE IF ~MayAccess(a.user, tasks[id])
        THEN Fail(op, cred, a.user, id, 403, "Forbidden")
        ELSE /\ ReplyTasks(op, cred, a.user, id, <<id>>, Overdue(<<id>>))
             /\ UNCHANGED <<store, tokens, now>>

\* findByIdAndUpdate(id, updateData, {runValidators: true}): the fields of
\* updateData are written as given; document middleware does not run.
ApplyUpdateReplacesDocument(task, in) ==
    [task EXCEPT
        !.dueDate = IF in.dueDate # NoDate THEN in.dueDate ELSE @,
        !.priority = IF in.priority # Undef THEN in.priority ELSE "medium",
        !.status = IF in.status # Undef THEN in.status ELSE "pending",
        !.assignedTo = IF in.assignedTo # NoId THEN in.assignedTo ELSE @]

ApplyUpdate(task, in) ==
    [task EXCEPT
        !.dueDate = IF in.dueDate # NoDate THEN in.dueDate ELSE @,
        !.priority = IF in.priority # Undef THEN in.priority ELSE @,
        !.status = IF in.status # Undef THEN in.status ELSE @,
        !.assignedTo = IF in.assignedTo # NoId THEN in.assignedTo ELSE @]

UpdateTask(cred, id, in) ==
    LET a == Auth(cred)
        op == "updateTask"
    IN  IF a.code # 200 THEN Fail(op, cred, NoId, id, 401, "Unauthorized")
        ELSE IF ~IsValidObjectId(id) THEN Fail(op, cred, a.user, id, 400, "Validation")
        ELSE IF id \notin DOMAIN tasks THEN Fail(op, cred, a.user, id, 404, "NotFound")
        ELSE IF ~MayAccess(a.user, tasks[id])
        THEN Fail(op, cred, a.user, id, 403, "Forbidden")
        ELSE IF in.assignedTo # NoId /\ in.assignedTo # tasks[id].assignedTo
                /\ ~IsValidObjectId(in.assignedTo)
        THEN Fail(op, cred, a.user, id, 500, "Unexpected")
        ELSE IF in.assignedTo # NoId /\ in.assignedTo # tasks[id].assignedTo
                /\ in.assignedTo \notin DOMAIN users
        THEN Fail(op, cred, a.user, id, 400, "Validation")
        ELSE IF TaskValidationErrors(in.status, in.priority, in.dueDate) # {}
        THEN Fail(op, cred, a.user, id, 400, "Validation")
        ELSE /\ tasks' = [tasks EXCEPT ![id] = ApplyUpdate(@, in)]
             /\ Reply(op, cred, a.user, id, 200, "Ok", <<id>>)
             /\ UNCHANGED <<users, nextUserId, nextTaskId, tokens, now>>

\* updateTask as the requests of two connections interleave: the awaits at
\* findById and findByIdAndUpdate are where another request can run.
Writes == Cardinality({d \in Conns : calls[d].phase = "done"})

UpdateTaskRead(c, cred, id, in) ==
    LET a == Auth(cred)
        op == "updateTask"
    IN  /\ calls[c].phase = "idle"
        /\ IF a.code # 200 THEN Fail(op, cred, NoId, id, 401, "Unauthorized")
           ELSE IF ~IsValidObjectId(id) THEN Fail(op, cred, a.user, id, 400, "Validation")
           ELSE IF id \notin DOMAIN tasks THEN Fail(op, cred, a.user, id, 404, "NotFound")
           ELSE IF ~MayAccess(a.user, tasks[id])
           THEN Fail(op, cred, a.user, id, 403, "Forbidden")
           ELSE IF in.assignedTo # NoId /\ in.assignedTo # tasks[id].assignedTo
                   /\ ~IsValidObjectId(in.assignedTo)
           THEN Fail(op, cred, a.user, id, 500, "Unexpected")
           ELSE IF in.assignedTo # NoId /\ in.assignedTo # tasks[id].assignedTo
                   /\ in.assignedTo \notin DOMAIN users
           THEN Fail(op, cred, a.user, id, 400, "Validation")
           ELSE /\ calls' = [calls EXCEPT ![c] =
                                [phase |-> "checked", op |-> op, actor |-> a.user,
                                 id |-> id, in |-> in, doc |-> tasks[id],
                                 saw |-> Writes, seq |-> 0, kind |-> "none"]]
                /\ UNCHANGED <<store, tokens, now, resp>>

UpdateTaskWrite(c) ==
    LET r == calls[c]
        op == "updateTask"
        seq == Writes + 1
        Done(kind) == calls' = [calls EXCEPT ![c].phase = "done", ![c].seq = seq,
                                             ![c].kind = kind]
    IN  /\ r.phase = "checked" /\ r.op = op
        /\ UNCHANGED <<users, nextUserId, nextTaskId, tokens, now>>
        /\ IF TaskValidationErrors(r.in.status, r.in.priority, r.in.dueDate) # {}
           THEN /\ Answer(op, NoCred, r.actor, r.id, 400, "Validation", <<>>)
                /\ Done("Validation")
                /\ UNCHANGED tasks
           ELSE IF r.id \notin DOMAIN tasks
           THEN /\ Answer(op, NoCred, r.actor, r.id, 200, "Ok", <<>>)
                /\ Done("Ok")
                /\ UNCHANGED tasks
           ELSE /\ tasks' = [tasks EXCEPT ![r.id] = ApplyUpdate(@, r.in)]
                /\ Answer(op, NoCred, r.actor, r.id, 200, "Ok", <<r.id>>)
                /\ Done("Ok")

DeleteTask(cred, id) ==
    LET a == Auth(cred)
        op == "deleteTask"
    IN  IF a.code # 200 THEN Fail(op, cred, NoId, id, 401, "Unauthorized")
        ELSE IF ~IsValidObjectId(id) THEN Fail(op, cred, a.user, id, 400, "Validation")
        ELSE IF id \notin DOMAIN tasks THEN Fail(op, cred, a.user, id, 404, "NotFound")
        ELSE IF ~MayDelete(a.user, tasks[id])
        THEN Fail(op, cred, a.user, id, 403, "Forbidden")
        ELSE /\ tasks' = Remove(tasks, id)
             /\ Reply(op, cred, a.user, id, 200, "Ok", <<>>)
             /\ UNCHANGED <<users, nextUserId, nextTaskId, tokens, now>>

\* deleteTask as requests interleave: findById reads, and findByIdAndDelete
\* removes after an await whatever the task has become.
DeleteTaskRead(c, cred, id) ==
    LET a == Auth(cred)
        op == "deleteTask"
    IN  /\ calls[c].phase = "idle"
        /\ IF a.code # 200 THEN Fail(op, cred, NoId, id, 401, "Unauthorized")
           ELSE IF ~IsValidObjectId(id) THEN Fail(op, cred, a.user, id, 400, "Validation")
           ELSE IF id \notin DOMAIN tasks THEN Fail(op, cred, a.user, id, 404, "NotFound")
           ELSE IF ~MayDelete(a.user, tasks[id])
           THEN Fail(op, cred, a.user, id, 403, "Forbidden")
           ELSE /\ calls' = [calls EXCEPT ![c] =
                                [phase |-> "checked", op |-> op, actor |-> a.user,
                                 id |-> id, in |-> NoUpdate, doc |-> tasks[id],
                                 saw |-> Writes, seq |-> 0, kind |-> "none"]]
                /\ UNCHANGED <<store, tokens, now, resp>>

DeleteTaskWrite(c) ==
    LET r == calls[c]
        op == "deleteTask"
    IN  /\ r.phase = "checked" /\ r.op = op
        /\ tasks' = Remove(tasks, r.id)
        /\ Answer(op, NoCred, r.actor, r.id, 200, "Ok", <<>>)
        /\ calls' = [calls EXCEPT ![c].phase = "done", ![c].seq = Writes + 1,
                                  ![c].kind = "Ok"]
        /\ UNCHANGED <<users, nextUserId, nextTaskId, tokens, now>>

\* task.save() of a document loaded with findById: validation is the first
\* pre-save hook and runs the validators of every loaded path, changed or
\* not; the handler answers any error with 500.
SaveValidationErrors(doc) == TaskValidationErrors(doc.status, doc.priority, doc.dueDate)

UpdateTaskStatus(cred, id, status) ==
    LET a == Auth(cred)
        op == "setTaskStatus"
    IN  IF a.code # 200 THEN Fail(op, cred, NoId, id, 401, "Unauthorized")
        ELSE IF ~IsValidObjectId(id) THEN Fail(op, cred, a.user, id, 400, "Validation")
        ELSE IF status \notin Statuses THEN Fail(op, cred, a.user, id, 400, "Validation")
        ELSE IF id \notin DOMAIN tasks THEN Fail(op, cred, a.user, id, 404, "NotFound")
        ELSE IF ~MayAccess(a.user, tasks[id])
        THEN Fail(op, cred, a.user, id, 403, "Forbidden")
        ELSE IF SaveValidationErrors([tasks[id] EXCEPT !.status = status]) # {}
        THEN Fail(op, cred, a.user, id, 500, "Unexpected")
        ELSE /\ tasks' = [tasks EXCEPT ![id] =
                    PreSave(status # @.status, [@ EXCEPT !.status = status])]
             /\ Reply(op, cred, a.user, id, 200, "Ok", <<id>>)
             /\ UNCHANGED <<users, nextUserId, nextTaskId, tokens, now>>

\* updateTaskStatus as requests interleave: the awaits at findById and at
\* task.save() are where another request can run. save() validates the
\* document the request read, runs pre('save') on it and writes the paths
\* that differ from what was read; it fails if the document is gone.
UpdateTaskStatusRead(c, cred, id, status) ==
    LET a == Auth(cred)
        op == "setTaskStatus"
    IN  /\ calls[c].phase = "idle"
        /\ IF a.code # 200 THEN Fail(op, cred, NoId, id, 401, "Unauthorized")
           ELSE IF ~IsValidObjectId(id) THEN Fail(op, cred, a.user, id, 400, "Validation")
           ELSE IF status \notin Statuses THEN Fail(op, cred, a.user, id, 400, "Validation")
           ELSE IF id \notin DOMAIN tasks THEN Fail(op, cred, a.user, id, 404, "NotFound")
           ELSE IF ~MayAccess(a.user, tasks[id])
           THEN Fail(op, cred, a.user, id, 403, "Forbidden")
           ELSE /\ calls' = [calls EXCEPT ![c] =
                                [phase |-> "checked", op |-> op, actor |-> a.user,
                                 id |-> id, in |-> [NoUpdate EXCEPT !.status = status],
                                 doc |-> tasks[id], saw |-> Writes, seq |-> 0,
                                 kind |-> "none"]]
                /\ UNCHANGED <<store, tokens, now, resp>>

UpdateTaskStatusSave(c) ==
    LET r == calls[c]
        op == "setTaskStatus"
        seq == Writes + 1
        set == [r.doc EXCEPT !.status = r.in.status]
        saved == PreSave(r.in.status # r.doc.status, set)
        Done(kind) == calls' = [calls EXCEPT ![c].phase = "done", ![c].seq = seq,
                                             ![c].kind = kind]
    IN  /\ r.phase = "checked" /\ r.op = op
        /\ UNCHANGED <<users, nextUserId, nextTaskId, tokens, now>>
        /\ IF SaveValidationErrors(set) # {} \/ r.id \notin DOMAIN tasks
           THEN /\ Answer(op, NoCred, r.actor, r.id, 500, "Unexpected", <<>>)
                /\ Done("Unexpected")
                /\ UNCHANGED tasks
           ELSE /\ tasks' = [tasks EXCEPT ![r.id] =
                    [@ EXCEPT
                        !.status = IF saved.status # r.doc.status
                                   THEN saved.status ELSE @,
                        !.completedAt = IF saved.completedAt # r.doc.completedAt
                                        THEN saved.completedAt ELSE @]]
                /\ Answer(op, NoCred, r.actor, r.id, 200, "Ok", <<r.id>>)
                /\ Done("Ok")

\* Task.find(query).sort(sort).skip(skip).limit(limit): the matching ids
\* in the order of the sort key. The database promises no order among
\* documents with equal keys, and none that lasts from one query to the
\* next, so every order that respects the keys is a possible result.
Matches(task, query) ==
    /\ query.assignedTo # NoId => task.assignedTo = query.assignedTo
    /\ query.status # Undef => task.status = query.status
    /\ query.priority # Undef => task.priority = query.priority

\* createdAt grows with the order of creation, as the ids do.
SortKey(id, sortBy) ==
    IF sortBy = "dueDate" THEN tasks[id].dueDate ELSE id

InOrder(x, y, sortBy, sortOrder) ==
    IF sortOrder = "desc" THEN SortKey(x, sortBy) >= SortKey(y, sortBy)
    ELSE SortKey(x, sortBy) <= SortKey(y, sortBy)

Orderings(ids) ==
    {o \in [1..Cardinality(ids) -> ids] :
        \A i, j \in 1..Cardinality(ids) : i # j => o[i] # o[j]}

SkipLimit(seq, skip, limit) ==
    SubSeq(seq, skip + 1, IF skip + limit < Len(seq) THEN skip + limit ELSE Len(seq))

Count(query) == Cardinality({id \in DOMAIN tasks : Matches(tasks[id], query)})

Find(query, sortBy, sortOrder) ==
    {o \in Orderings({id \in DOMAIN tasks : Matches(tasks[id], query)}) :
        \A i, j \in DOMAIN o : i < j => InOrder(o[i], o[j], sortBy, sortOrder)}

\* The filter getTasks builds from the actor's role and the request.
GetTasksQueryHonoursFilter(user, q) ==
    [assignedTo |-> IF q.assignedTo # NoId THEN q.assignedTo
                    ELSE IF ~IsAdmin(user) THEN user ELSE NoId,
     status |-> q.status, priority |-> q.priority]

GetTasksQuery(user, q) ==
    [assignedTo |-> IF ~IsAdmin(user) THEN user
                    ELSE IF q.assignedTo # NoId THEN q.assignedTo ELSE NoId,
     status |-> q.status, priority |-> q.priority]

GetTasks(cred, q) ==
    LET a == Auth(cred)
        op == "listTasks"
    IN  IF a.code # 200 THEN Fail(op, cred, NoId, q.assignedTo, 401, "Unauthorized")
        ELSE IF ~IsValidObjectId(GetTasksQuery(a.user, q).assignedTo)
        THEN Fail(op, cred, a.user, q.assignedTo, 500, "Unexpected")
        ELSE /\ \E found \in Find(GetTasksQuery(a.user, q), q.sortBy, q.sortOrder) :
                   ReplyPage(op, cred, a.user, q.assignedTo,
                             SkipLimit(found, (q.page - 1) * q.limit, q.limit),
                             q, Count(GetTasksQuery(a.user, q)),
                             Overdue(SkipLimit(found, (q.page - 1) * q.limit, q.limit)))
             /\ UNCHANGED <<store, tokens, now>>

\* The filter getTasksByPriority builds.
PriorityQuery(user, priority) ==
    [assignedTo |-> IF ~IsAdmin(user) THEN user ELSE NoId,
     status |-> Undef, priority |-> priority]

GetTasksByPriority(cred, priority) ==
    LET a == Auth(cred)
        op == "listByPriority"
    IN  IF a.code # 200 THEN Fail(op, cred, NoId, NoId, 401, "Unauthorized")
        ELSE IF priority \notin Priorities
        THEN Fail(op, cred, a.user, NoId, 400, "Validation")
        ELSE /\ \E found \in Find(PriorityQuery(a.user, priority), "dueDate", "asc") :
                   ReplyTasks(op, cred, a.user, NoId, found, Overdue(found))
             /\ UNCHANGED <<store, tokens, now>>

\* ----------------------------------------------------- /api/auth handlers
PwTruthy(p) == p # Undef /\ p # ""

\* User.findOne({$or: [{email}, {username}]}): the filter values are cast
\* through the schema setters.
FindByEmailOrUsername(email, username) ==
    {u \in DOMAIN users : \/ users[u].email = EmailSetter(email)
                          \/ users[u].username = UsernameSetter(username)}

\* The unique indexes of the users collection.
DuplicateKey(id, doc) ==
    \E u \in DOMAIN users \ {id} :
        users[u].username = doc.username \/ users[u].email = doc.email

\* 'Username, email, and password are required'.
RequiredOfUser == {"username", "email", "password"}

\* The lengths of the usernames and passwords the requests carry.
UsernameLength(s) ==
    CASE s.b \in {"", Undef} -> 0 [] s.b = "al" -> 2 [] s.b = "root" -> 4 [] OTHER -> 3
PasswordLength(p) ==
    CASE p \in {"", Undef} -> 0 [] p = "pass" -> 4 [] p = "guess" -> 5
      [] p \in {"p72+a", "p72+b"} -> 73 [] OTHER -> 8

\* user.save() of a new document: every validator of the schema runs and
\* the ValidationError carries one entry for each path that failed.
UserValidationErrors(username, password, role) ==
    {e \in {"username", "password", "role"} :
        \/ e = "username" /\ UsernameLength(UsernameSetter(username)) < 3
        \/ e = "password" /\ PasswordLength(password) < 6
        \/ e = "role" /\ role \notin Roles}

\* new User({username, email, password, firstName, lastName}): role and
\* isActive take the defaults of the schema.
RegisteredUserTakesRole(in) ==
    [username |-> UsernameSetter(in.username), email |-> EmailSetter(in.email),
     password |-> BcryptHash(in.password),
     role |-> IF in.role # Undef THEN in.role ELSE "user", isActive |-> TRUE]

RegisteredUser(in) ==
    [username |-> UsernameSetter(in.username), email |-> EmailSetter(in.email),
     password |-> BcryptHash(in.password), role |-> "user", isActive |-> TRUE]

Register(in) ==
    LET op == "register"
        doc == RegisteredUser(in)
    IN  /\ IF ~Truthy(in.username) \/ ~Truthy(in.email) \/ ~PwTruthy(in.password)
           THEN FailWith(op, NoCred, NoId, NoId, RequiredOfUser)
           ELSE IF FindByEmailOrUsername(in.email, in.username) # {}
           THEN Fail(op, NoCred, NoId, NoId, 400, "Conflict")
           ELSE IF UserValidationErrors(in.username, in.password, "user") # {}
           THEN FailWith(op, NoCred, NoId, NoId,
                         UserValidationErrors(in.username, in.password, "user"))
           ELSE IF DuplicateKey(nextUserId, doc)
           THEN Fail(op, NoCred, NoId, NoId, 500, "Unexpected")
           ELSE /\ nextUserId <= MaxUsers
                /\ users' = Insert(users, nextUserId, doc)
                /\ nextUserId' = nextUserId + 1
                /\ tokens' = tokens \cup {GenerateToken(nextUserId)}
                /\ Reply(op, NoCred, NoId, nextUserId, 201, "Ok", <<nextUserId>>)
                /\ UNCHANGED <<tasks, nextTaskId, now>>

\* What login answers in the current state, and for which user.
LoginOutcome(in) ==
    LET found == {u \in DOMAIN users : users[u].email = EmailSetter(in.email)}
        user == CHOOSE u \in found : TRUE
    IN  IF ~Truthy(in.email) \/ ~PwTruthy(in.password)
        THEN [code |-> 400, kind |-> "Validation", user |-> NoId]
        ELSE IF found = {} THEN [code |-> 401, kind |-> "Unauthorized", user |-> NoId]
        ELSE IF ~users[user].isActive
        THEN [code |-> 401, kind |-> "Unauthorized", user |-> user]
        ELSE IF ~ComparePassword(in.password, users[user].password)
        THEN [code |-> 401, kind |-> "Unauthorized", user |-> user]
        ELSE [code |-> 200, kind |-> "Ok", user |-> user]

Login(in) ==
    LET op == "login"
        o == LoginOutcome(in)
    IN  IF o.kind # "Ok" THEN Fail(op, NoCred, NoId, o.user, o.code, o.kind)
        ELSE /\ tokens' = tokens \cup {GenerateToken(o.user)}
             /\ Reply(op, NoCred, NoId, o.user, 200, "Ok", <<o.user>>)
             /\ UNCHANGED <<store, now>>

GetMe(cred) ==
    LET a == Auth(cred)
        op == "getSelf"
    IN  IF a.code # 200 THEN Fail(op, cred, NoId, NoId, 401, "Unauthorized")
        ELSE /\ Reply(op, cred, a.user, a.user, 200, "Ok", <<a.user>>)
             /\ UNCHANGED <<store, tokens, now>>

\* User.findOne({username, _id: {$ne: id}}) and its email twin.
UsernameTakenBySelfToo(id, username) ==
    \E u \in DOMAIN users : users[u].username = UsernameSetter(username)

UsernameTaken(id, username) ==
    \E u \in DOMAIN users \ {id} : users[u].username = UsernameSetter(username)

EmailTaken(id, email) ==
    \E u \in DOMAIN users \ {id} : users[u].email = EmailSetter(email)

\* updateData of updateProfile: of the body only firstName, lastName and
\* username are read.
ProfileUpdateWritesBody(user, in) ==
    [user EXCEPT
        !.username = IF in.username # UndefStr THEN UsernameSetter(in.username) ELSE @,
        !.role = IF in.role # Undef THEN in.role ELSE @]

ProfileUpdate(user, in) ==
    [user EXCEPT
        !.username = IF in.username # UndefStr THEN UsernameSetter(in.username) ELSE @]

UpdateProfile(cred, in) ==
    LET a == Auth(cred)
        op == "updateSelf"
        doc == ProfileUpdate(users[a.user], in)
    IN  IF a.code # 200 THEN Fail(op, cred, NoId, NoId, 401, "Unauthorized")
        ELSE IF Truthy(in.username) /\ in.username # users[a.user].username
                /\ UsernameTaken(a.user, in.username)
        THEN Fail(op, cred, a.user, a.user, 400, "Conflict")
        ELSE IF in.username # UndefStr /\ ~Truthy(in.username)
        THEN Fail(op, cred, a.user, a.user, 400, "Validation")
        ELSE IF DuplicateKey(a.user, doc)
        THEN Fail(op, cred, a.user, a.user, 500, "Unexpected")
        ELSE /\ users' = [users EXCEPT ![a.user] = doc]
             /\ Reply(op, cred, a.user, a.user, 200, "Ok", <<a.user>>)
             /\ UNCHANGED <<tasks, nextUserId, nextTaskId, tokens, now>>

\* ---------------------------------------------------- /api/users handlers
\* auth, then adminAuth, as the router chains them: the status that ends
\* the request before the handler runs, or 200.
Gate(cred) ==
    LET a == Auth(cred)
    IN  IF a.code # 200 THEN [code |-> 401, kind |-> "Unauthorized", user |-> NoId]
        ELSE IF AdminAuth(a.user) = 401
        THEN [code |-> 401, kind |-> "Unauthorized", user |-> a.user]
        ELSE IF AdminAuth(a.user) = 403
        THEN [code |-> 403, kind |-> "Forbidden", user |-> a.user]
        ELSE [code |-> 200, kind |-> "Ok", user |-> a.user]

RECURSIVE NewestFirst(_)
NewestFirst(ids) ==
    IF ids = {} THEN <<>>
    ELSE LET last == CHOOSE x \in ids : \A y \in ids : y <= x
         IN  <<last>> \o NewestFirst(ids \ {last})

GetAllUsers(cred, q) ==
    LET g == Gate(cred)
        op == "listUsers"
        found == {u \in DOMAIN users :
                     /\ q.role # Undef => users[u].role = q.role
                     /\ q.isActive # Undef => users[u].isActive = (q.isActive = "true")}
    IN  IF g.code # 200 THEN Fail(op, cred, g.user, NoId, g.code, g.kind)
        ELSE /\ ReplyPage(op, cred, g.user, NoId,
                          SkipLimit(NewestFirst(found), (q.page - 1) * q.limit, q.limit),
                          q, Cardinality(found), <<>>)
             /\ UNCHANGED <<store, tokens, now>>

GetUserById(cred, id) ==
    LET g == Gate(cred)
        op == "getUser"
    IN  IF g.code # 200 THEN Fail(op, cred, g.user, id, g.code, g.kind)
        ELSE IF ~IsValidObjectId(id) THEN Fail(op, cred, g.user, id, 400, "Validation")
        ELSE IF id \notin DOMAIN users THEN Fail(op, cred, g.user, id, 404, "NotFound")
        ELSE /\ Reply(op, cred, g.user, id, 200, "Ok", <<id>>)
             /\ UNCHANGED <<store, tokens, now>>

CreateUser(cred, in) ==
    LET g == Gate(cred)
        op == "createUser"
        doc == [username |-> UsernameSetter(in.username),
                email |-> EmailSetter(in.email),
                password |-> BcryptHash(in.password),
                role |-> IF in.role # Undef THEN in.role ELSE "user",
                isActive |-> TRUE]
    IN  /\ IF g.code # 200 THEN Fail(op, cred, g.user, NoId, g.code, g.kind)
           ELSE IF ~Truthy(in.username) \/ ~Truthy(in.email) \/ ~PwTruthy(in.password)
           THEN FailWith(op, cred, g.user, NoId, RequiredOfUser)
           ELSE IF FindByEmailOrUsername(in.email, in.username) # {}
           THEN Fail(op, cred, g.user, NoId, 400, "Conflict")
           ELSE IF UserValidationErrors(in.username, in.password, doc.role) # {}
           THEN FailWith(op, cred, g.user, NoId,
                         UserValidationErrors(in.username, in.password, doc.role))
           ELSE IF DuplicateKey(nextUserId, doc)
           THEN Fail(op, cred, g.user, NoId, 500, "Unexpected")
           ELSE /\ nextUserId <= MaxUsers
                /\ users' = Insert(users, nextUserId, doc)
                /\ nextUserId' = nextUserId + 1
                /\ Reply(op, cred, g.user, nextUserId, 201, "Ok", <<nextUserId>>)
                /\ UNCHANGED <<tasks, nextTaskId, tokens, now>>

\* "Prevent admin from deactivating themselves": isActive === false.
IsSelfDeactivation(user, id, isActive) ==
    id = user /\ isActive = JFalse

UpdateUser(cred, id, in) ==
    LET g == Gate(cred)
        op == "updateUser"
        doc == [users[id] EXCEPT
                   !.username = IF in.username # UndefStr
                                THEN UsernameSetter(in.username) ELSE @,
                   !.email = IF in.email # UndefStr THEN EmailSetter(in.email) ELSE @,
                   !.role = IF in.role # Undef THEN in.role ELSE @,
                   !.isActive = IF in.isActive # JUndef
                                THEN CastBoolean(in.isActive) ELSE @]
    IN  IF g.code # 200 THEN Fail(op, cred, g.user, id, g.code, g.kind)
        ELSE IF ~IsValidObjectId(id) THEN Fail(op, cred, g.user, id, 400, "Validation")
        ELSE IF id \notin DOMAIN users THEN Fail(op, cred, g.user, id, 404, "NotFound")
        ELSE IF IsSelfDeactivation(g.user, id, in.isActive)
        THEN Fail(op, cred, g.user, id, 400, "Rejected")
        ELSE IF Truthy(in.username) /\ in.username # users[id].username
                /\ UsernameTaken(id, in.username)
        THEN Fail(op, cred, g.user, id, 400, "Conflict")
        ELSE IF Truthy(in.email) /\ in.email # users[id].email
                /\ EmailTaken(id, in.email)
        THEN Fail(op, cred, g.user, id, 400, "Conflict")
        ELSE IF \/ in.username # UndefStr /\ ~Truthy(in.username)
                \/ in.email # UndefStr /\ ~Truthy(in.email)
                \/ doc.role \notin Roles
        THEN Fail(op, cred, g.user, id, 400, "Validation")
        ELSE IF DuplicateKey(id, doc)
        THEN Fail(op, cred, g.user, id, 500, "Unexpected")
        ELSE /\ users' = [users EXCEPT ![id] = doc]
             /\ Reply(op, cred, g.user, id, 200, "Ok", <<id>>)
             /\ UNCHANGED <<tasks, nextUserId, nextTaskId, tokens, now>>

\* updateUser as requests interleave: findById and the findOne lookups
\* read, and findByIdAndUpdate validates and writes after an await; it
\* resolves to null when no document has the id.
UpdateUserRead(c, cred, id, in) ==
    LET g == Gate(cred)
        op == "updateUser"
    IN  /\ calls[c].phase = "idle"
        /\ IF g.code # 200 THEN Fail(op, cred, g.user, id, g.code, g.kind)
           ELSE IF ~IsValidObjectId(id) THEN Fail(op, cred, g.user, id, 400, "Validation")
           ELSE IF id \notin DOMAIN users THEN Fail(op, cred, g.user, id, 404, "NotFound")
           ELSE IF IsSelfDeactivation(g.user, id, in.isActive)
           THEN Fail(op, cred, g.user, id, 400, "Rejected")
           ELSE IF Truthy(in.username) /\ in.username # users[id].username
                   /\ UsernameTaken(id, in.username)
           THEN Fail(op, cred, g.user, id, 400, "Conflict")
           ELSE IF Truthy(in.email) /\ in.email # users[id].email
                   /\ EmailTaken(id, in.email)
           THEN Fail(op, cred, g.user, id, 400, "Conflict")
           ELSE /\ calls' = [calls EXCEPT ![c] =
                                [phase |-> "checked", op |-> op, actor |-> g.user,
                                 id |-> id, in |-> in, doc |-> NoTask,
                                 saw |-> 0, seq |-> 0, kind |-> "none"]]
                /\ UNCHANGED <<store, tokens, now, resp>>

UpdateUserWrite(c) ==
    LET r == calls[c]
        op == "updateUser"
        in == r.in
        Done(kind) == calls' = [calls EXCEPT ![c].phase = "done", ![c].kind = kind]
        doc == [users[r.id] EXCEPT
                   !.username = IF in.username # UndefStr
                                THEN UsernameSetter(in.username) ELSE @,
                   !.email = IF in.email # UndefStr THEN EmailSetter(in.email) ELSE @,
                   !.role = IF in.role # Undef THEN in.role ELSE @,
                   !.isActive = IF in.isActive # JUndef
                                THEN CastBoolean(in.isActive) ELSE @]
    IN  /\ r.phase = "checked" /\ r.op = op
        /\ UNCHANGED <<tasks, nextUserId, nextTaskId, tokens, now>>
        /\ IF \/ in.username # UndefStr /\ ~Truthy(in.username)
              \/ in.email # UndefStr /\ ~Truthy(in.email)
              \/ in.role # Undef /\ in.role \notin Roles
           THEN /\ Answer(op, NoCred, r.actor, r.id, 400, "Validation", <<>>)
                /\ Done("Validation")
                /\ UNCHANGED users
           ELSE IF r.id \notin DOMAIN users
           THEN /\ Answer(op, NoCred, r.actor, r.id, 200, "Ok", <<>>)
                /\ Done("Ok")
                /\ UNCHANGED users
           ELSE IF DuplicateKey(r.id, doc)
           THEN /\ Answer(op, NoCred, r.actor, r.id, 500, "Unexpected", <<>>)
                /\ Done("Unexpected")
                /\ UNCHANGED users
           ELSE /\ users' = [users EXCEPT ![r.id] = doc]
                /\ Answer(op, NoCred, r.actor, r.id, 200, "Ok", <<r.id>>)
                /\ Done("Ok")

\* Task.countDocuments({$or: [{assignedTo: id}, {createdBy: id}]}).
CountUserTasksAssignedOnly(id) ==
    Cardinality({t \in DOMAIN tasks : tasks[t].assignedTo = id})

CountUserTasks(id) ==
    Cardinality({t \in DOMAIN tasks :
                    tasks[t].assignedTo = id \/ tasks[t].createdBy = id})

DeleteUserDeletesThenCounts(cred, id) ==
    LET g == Gate(cred)
        op == "deleteUser"
    IN  IF g.code # 200 THEN Fail(op, cred, g.user, id, g.code, g.kind)
        ELSE IF ~IsValidObjectId(id) THEN Fail(op, cred, g.user, id, 400, "Validation")
        ELSE IF id \notin DOMAIN users THEN Fail(op, cred, g.user, id, 404, "NotFound")
        ELSE IF id = g.user THEN Fail(op, cred, g.user, id, 400, "Rejected")
        ELSE /\ users' = Remove(users, id)
             /\ IF CountUserTasks(id) > 0
                THEN Reply(op, cred, g.user, id, 400, "Rejected", <<>>)
                ELSE Reply(op, cred, g.user, id, 200, "Ok", <<>>)
             /\ UNCHANGED <<tasks, nextUserId, nextTaskId, tokens, now>>

DeleteUser(cred, id) ==
    LET g == Gate(cred)
        op == "deleteUser"
    IN  IF g.code # 200 THEN Fail(op, cred, g.user, id, g.code, g.kind)
        ELSE IF ~IsValidObjectId(id) THEN Fail(op, cred, g.user, id, 400, "Validation")
        ELSE IF id \notin DOMAIN users THEN Fail(op, cred, g.user, id, 404, "NotFound")
        ELSE IF id = g.user THEN Fail(op, cred, g.user, id, 400, "Rejected")
        ELSE IF CountUserTasks(id) > 0 THEN Fail(op, cred, g.user, id, 400, "Rejected")
        ELSE /\ users' = Remove(users, id)
             /\ Reply(op, cred, g.user, id, 200, "Ok", <<>>)
             /\ UNCHANGED <<tasks, nextUserId, nextTaskId, tokens, now>>

\* deleteUser as requests interleave: findById and countDocuments read,
\* and findByIdAndDelete removes after an await.
DeleteUserCheck(c, cred, id) ==
    LET g == Gate(cred)
        op == "deleteUser"
    IN  /\ calls[c].phase = "idle"
        /\ IF g.code # 200 THEN Fail(op, cred, g.user, id, g.code, g.kind)
           ELSE IF ~IsValidObjectId(id) THEN Fail(op, cred, g.user, id, 400, "Validation")
           ELSE IF id \notin DOMAIN users THEN Fail(op, cred, g.user, id, 404, "NotFound")
           ELSE IF id = g.user THEN Fail(op, cred, g.user, id, 400, "Rejected")
           ELSE IF CountUserTasks(id) > 0 THEN Fail(op, cred, g.user, id, 400, "Rejected")
           ELSE /\ calls' = [calls EXCEPT ![c] =
                                [phase |-> "checked", op |-> op, actor |-> g.user,
                                 id |-> id, in |-> NoUpdate, doc |-> NoTask,
                                 saw |-> 0, seq |-> 0, kind |-> "none"]]
                /\ UNCHANGED <<store, tokens, now, resp>>

DeleteUserWrite(c) ==
    LET r == calls[c]
        op == "deleteUser"
    IN  /\ r.phase = "checked" /\ r.op = op
        /\ users' = Remove(users, r.id)
        /\ Answer(op, NoCred, r.actor, r.id, 200, "Ok", <<>>)
        /\ calls' = [calls EXCEPT ![c].phase = "done", ![c].kind = "Ok"]
        /\ UNCHANGED <<tasks, nextUserId, nextTaskId, tokens, now>>

\* Usernames in the collation order of the store: upper case sorts first.
NameOrder == <<"ann", "bob", "cat", "dan", "root">>
UsernameRank(s) ==
    (IF s.up THEN 0 ELSE Len(NameOrder))
        + (CHOOSE i \in 1..Len(NameOrder) : NameOrder[i] = s.b)

RECURSIVE ByUsername(_)
ByUsername(ids) ==
    IF ids = {} THEN <<>>
    ELSE LET first == CHOOSE x \in ids : \A y \in ids :
                          UsernameRank(users[x].username) <= UsernameRank(users[y].username)
         IN  <<first>> \o ByUsername(ids \ {first})

GetUsersForAssignment(cred) ==
    LET a == Auth(cred)
        op == "listAssignableUsers"
    IN  IF a.code # 200 THEN Fail(op, cred, NoId, NoId, 401, "Unauthorized")
        ELSE /\ Reply(op, cred, a.user, NoId, 200, "Ok",
                      ByUsername({u \in DOMAIN users : users[u].isActive}))
             /\ UNCHANGED <<store, tokens, now>>

\* ------------------------------------------------------------- the clock
Tick ==
    /\ now < MaxTime
    /\ now' = now + 1
    /\ UNCHANGED <<store, tokens, resp, calls>>

\* --------------------------------------------------- requests and seeds
Padded(b) == [b |-> b, up |-> FALSE, pad |-> TRUE]
Upper(b) == [b |-> b, up |-> TRUE, pad |-> FALSE]

SeedNames == <<"root", "ann", "bob", "cat", "dan">>
SeedUser(i) ==
    [username |-> Str(SeedNames[i]), email |-> Str(SeedNames[i]),
     password |-> BcryptHash("passw0rd"),
     role |-> IF i = 1 THEN "admin" ELSE "user", isActive |-> TRUE]

NoResp ==
    [op |-> "none", cred |-> NoCred, actor |-> NoId, id |-> NoId, code |-> 0,
     kind |-> "none", list |-> <<>>, query |-> NoQuery,
     pagination |-> NoPagination, isOverdue |-> <<>>, errors |-> {}]

\* What a caller can present: nothing, a token the server did not sign, or
\* a token the server issued to one of the given users.
CredsOf(subs) == {NoCred, Forged(1)} \cup {Bearer(t) : t \in {x \in tokens : x.sub \in subs}}
Creds == CredsOf(1..MaxUsers)

FarDate == (MaxTime + 1) * DayLen
PastDate == 0 - DayLen
GhostUser == MaxUsers + 1

InitSeeded ==
    /\ users = [i \in 1..MaxUsers |-> SeedUser(i)]
    /\ nextUserId = MaxUsers + 1
    /\ tasks = <<>>
    /\ nextTaskId = 1
    /\ tokens = {[sub |-> i, iat |-> 0] : i \in 1..MaxUsers}
    /\ now = 0
    /\ resp = NoResp
    /\ calls = [c \in Conns |-> Idle]

\* ------------------------------------- Spec: the lifecycle of a task
\* The accounts exist and are signed in; an admin and a user create tasks
\* for themselves and move them through the statuses while the clock runs.
LifeCreds == CredsOf({1, 2}) \ {Forged(1)}

LifeCreateInputs ==
    [title : {Str("t"), EmptyStr}, dueDate : {PastDate, FarDate},
     priority : {Undef}, assignedTo : {NoId}]

LifeUpdateInputs ==
    [dueDate : {NoDate, FarDate, PastDate}, priority : {Undef},
     status : Statuses \cup {Undef, "bogus"}, assignedTo : {NoId}]

LifeListInputs ==
    [assignedTo : {NoId}, status : {Undef, "completed"},
     priority : {Undef}, page : {DefaultPage}, limit : {DefaultLimit},
     sortBy : {"dueDate"}, sortOrder : {"asc"}]

Init == InitSeeded

Next ==
    \/ \E cred \in LifeCreds, in \in LifeCreateInputs : CreateTask(cred, in)
    \/ \E cred \in LifeCreds, id \in 1..MaxTasks : GetTaskById(cred, id)
    \/ \E cred \in LifeCreds, id \in 1..MaxTasks, in \in LifeUpdateInputs :
          UpdateTask(cred, id, in)
    \/ \E cred \in LifeCreds, id \in 1..MaxTasks, st \in Statuses \cup {"bogus"} :
          UpdateTaskStatus(cred, id, st)
    \/ \E cred \in LifeCreds, id \in 1..MaxTasks : DeleteTask(cred, id)
    \/ \E cred \in LifeCreds, q \in LifeListInputs : GetTasks(cred, q)
    \/ \E cred \in LifeCreds : GetTasksByPriority(cred, "medium")
    \/ Tick

Spec == Init /\ [][Next]_vars

\* ------------------------------- SpecAccess: who may touch which task
\* Every account creates, assigns, reads, completes and deletes tasks; the
\* administrator deletes accounts.
\* A body may carry createdBy and status; createTask does not read them.
AccessCreateInputs ==
    [title : {Str("t")}, dueDate : {FarDate},
     priority : {Undef, "high"}, assignedTo : {NoId, 1, 2, GhostUser, InvalidId},
     createdBy : {NoId, 1}, status : {Undef, "completed"}]

AccessUpdateInputs ==
    [dueDate : {NoDate}, priority : {Undef}, status : {Undef},
     assignedTo : (1..GhostUser) \cup {InvalidId}]
    \cup [dueDate : {NoDate}, priority : {Undef, "bogus"}, status : {"bogus"},
          assignedTo : {NoId}]

AccessListInputs ==
    [assignedTo : {NoId, InvalidId} \cup (1..MaxUsers), status : {Undef},
     priority : {Undef}, page : {DefaultPage}, limit : {DefaultLimit},
     sortBy : {"dueDate"}, sortOrder : {"asc"}]

AccessCreds == Creds \ {Forged(1)}

NextAccess ==
    \/ \E cred \in AccessCreds, in \in AccessCreateInputs : CreateTask(cred, in)
    \/ \E cred \in AccessCreds, id \in 1..MaxTasks \cup {InvalidId} : GetTaskById(cred, id)
    \/ \E cred \in AccessCreds, id \in 1..MaxTasks, in \in AccessUpdateInputs :
          UpdateTask(cred, id, in)
    \/ \E cred \in AccessCreds, id \in 1..MaxTasks, st \in {"completed", "bogus"} :
          UpdateTaskStatus(cred, id, st)
    \/ \E cred \in AccessCreds, id \in 1..MaxTasks : DeleteTask(cred, id)
    \/ \E cred \in AccessCreds, q \in AccessListInputs : GetTasks(cred, q)
    \/ \E cred \in AccessCreds, pr \in {"medium", "high", "bogus"} :
          GetTasksByPriority(cred, pr)
    \/ \E cred \in AccessCreds, id \in 1..MaxUsers : DeleteUser(cred, id)

SpecAccess == InitSeeded /\ [][NextAccess]_vars

\* ------------------------------- SpecUsers: accounts come, change and go
\* One seeded administrator, who has one task; people register and sign in,
\* the administrators manage the accounts.
InitFresh ==
    /\ users = [i \in {1} |-> SeedUser(i)]
    /\ nextUserId = 2
    /\ tasks = [i \in {1} |->
                  [title |-> Str("t"), dueDate |-> FarDate, status |-> "pending",
                   priority |-> "medium", createdBy |-> 1, assignedTo |-> 1,
                   completedAt |-> NullDate, notes |-> <<>>]]
    /\ nextTaskId = 2
    /\ tokens = {[sub |-> 1, iat |-> 0]}
    /\ now = 0
    /\ resp = NoResp
    /\ calls = [c \in Conns |-> Idle]

RegisterInputs ==
    [username : {Str("ann"), Padded("ann"), Str("root")},
     email : {Str("ann"), Upper("ann")}, password : {"passw0rd"},
     role : {Undef, "admin"}]
    \cup [username : {Str("ann"), EmptyStr}, email : {Str("ann")}, password : {""},
          role : {Undef}]

LoginInputs ==
    [email : {Str("root"), Upper("ann"), Str("cat")}, password : {"passw0rd", "guess"}]
    \cup [email : {Str("ann"), EmptyStr}, password : {""}]

ProfileInputs ==
    [username : {UndefStr, EmptyStr, Str("ann"), Padded("ann"), Str("root")},
     role : {Undef, "admin", "user"}]

CreateUserInputs ==
    [username : {Str("ann"), Str("bob")}, email : {Upper("ann")},
     password : {"passw0rd"}, role : {Undef, "admin"}]
    \cup [username : {Str("bob")}, email : {Str("bob")}, password : {"passw0rd", ""},
          role : {Undef, "bogus"}]

NoChange == [username |-> UndefStr, email |-> UndefStr, role |-> Undef, isActive |-> JUndef]
UpdateUserInputs ==
    {[NoChange EXCEPT !.username = n] : n \in {Str("ann"), Padded("ann"), EmptyStr}}
    \cup {[NoChange EXCEPT !.email = e] : e \in {Str("ann"), Upper("root")}}
    \cup {[NoChange EXCEPT !.role = r] : r \in {"user", "admin", "bogus"}}
    \cup {[NoChange EXCEPT !.isActive = j] : j \in {JTrue, JFalse, JStrFalse}}
    \cup {[NoChange EXCEPT !.isActive = JFalse, !.username = Str("ann")]}

UserListInputs ==
    [role : {Undef, "admin"}, isActive : {Undef, "false"},
     page : {DefaultPage}, limit : {DefaultLimit}]

UserIdInputs == 1..GhostUser

\* Requests to the task router that change nothing whoever sends them.
BlankTask ==
    [title |-> EmptyStr, dueDate |-> NoDate, priority |-> Undef, assignedTo |-> NoId]
BlankUpdate ==
    [dueDate |-> NoDate, priority |-> Undef, status |-> "bogus", assignedTo |-> NoId]
AllTasks ==
    [assignedTo |-> NoId, status |-> Undef, priority |-> Undef,
     page |-> DefaultPage, limit |-> DefaultLimit, sortBy |-> "dueDate",
     sortOrder |-> "asc"]

NextUsers ==
    \/ \E in \in RegisterInputs : Register(in)
    \/ \E in \in LoginInputs : Login(in)
    \/ \E cred \in Creds : GetMe(cred)
    \/ \E cred \in Creds, in \in ProfileInputs : UpdateProfile(cred, in)
    \/ \E cred \in Creds, q \in UserListInputs : GetAllUsers(cred, q)
    \/ \E cred \in Creds, id \in UserIdInputs \cup {InvalidId} : GetUserById(cred, id)
    \/ \E cred \in Creds, in \in CreateUserInputs : CreateUser(cred, in)
    \/ \E cred \in Creds, id \in UserIdInputs, in \in UpdateUserInputs :
          UpdateUser(cred, id, in)
    \/ \E cred \in Creds, id \in UserIdInputs : DeleteUser(cred, id)
    \/ \E cred \in Creds : GetUsersForAssignment(cred)
    \/ \E cred \in Creds : CreateTask(cred, BlankTask)
    \/ \E cred \in Creds : GetTaskById(cred, 1)
    \/ \E cred \in Creds : UpdateTask(cred, 1, BlankUpdate)
    \/ \E cred \in Creds : UpdateTaskStatus(cred, 1, "bogus")
    \/ \E cred \in Creds : DeleteTask(cred, MaxTasks + 1)
    \/ \E cred \in Creds : GetTasks(cred, AllTasks)
    \/ \E cred \in Creds : GetTasksByPriority(cred, "medium")

SpecUsers == InitFresh /\ [][NextUsers]_vars

\* ------------------------------------ SpecLogin: passwords open accounts
\* People register with short and with long passwords and sign in; the
\* administrator switches accounts off and on and removes them.
Passwords == {"passw0rd", "guess", "p72+a", "p72+b"}
LoginRegisterInputs ==
    [username : {Str("ann")}, email : {Str("ann"), Upper("ann")},
     password : {"passw0rd", "p72+a", ""}]
LoginLoginInputs ==
    [email : {Str("root"), Str("ann")}, password : Passwords \cup {""}]
LoginUpdateInputs ==
    {[NoChange EXCEPT !.isActive = j] : j \in {JTrue, JFalse}}

NextLogin ==
    \/ \E in \in LoginRegisterInputs : Register(in)
    \/ \E in \in LoginLoginInputs : Login(in)
    \/ \E cred \in Creds, in \in LoginUpdateInputs : UpdateUser(cred, MaxUsers, in)
    \/ \E cred \in Creds : DeleteUser(cred, MaxUsers)
    \/ Tick

SpecLogin == InitFresh /\ [][NextLogin]_vars

\* -------------------------------------- SpecRace: two updates of one task
\* One task, created by the administrator for the other user; each of two
\* connections sends one updateTask for it and the two requests interleave.
RaceTask ==
    [title |-> Str("t"), dueDate |-> FarDate, status |-> "pending",
     priority |-> "low", createdBy |-> 1, assignedTo |-> 2,
     completedAt |-> NullDate, notes |-> <<>>]
InitRace ==
    /\ users = [i \in 1..MaxUsers |-> SeedUser(i)]
    /\ nextUserId = MaxUsers + 1
    /\ tasks = [i \in {1} |-> RaceTask]
    /\ nextTaskId = 2
    /\ tokens = {[sub |-> i, iat |-> 0] : i \in 1..MaxUsers}
    /\ now = 0
    /\ resp = NoResp
    /\ calls = [c \in Conns |-> Idle]

RaceUpdateInputs ==
    [dueDate : {NoDate}, priority : {Undef, "high", "urgent"},
     status : {Undef, "in-progress"}, assignedTo : {NoId, 1}]
    \cup {[NoUpdate EXCEPT !.priority = "bogus"],
          [NoUpdate EXCEPT !.dueDate = FarDate + 1]}

NextRace ==
    \/ \E c \in Conns, cred \in Creds, in \in RaceUpdateInputs :
          UpdateTaskRead(c, cred, 1, in)
    \/ \E c \in Conns : UpdateTaskWrite(c)
    \/ Tick

SpecRace == InitRace /\ [][NextRace]_vars

\* ------------------------------ SpecStatusRace: two status changes of one task
\* One task; each of two connections sends one setTaskStatus for it and
\* the two requests interleave while the clock runs.
NextStatusRace ==
    \/ \E c \in Conns, cred \in Creds, st \in Statuses \cup {"bogus"} :
          UpdateTaskStatusRead(c, cred, 1, st)
    \/ \E c \in Conns : UpdateTaskStatusSave(c)
    \/ Tick

SpecStatusRace == InitRace /\ [][NextStatusRace]_vars

\* --------------------- SpecOrphans: an account goes while tasks name it
\* The administrator has one task of their own and the other user has
\* none; over two connections the administrator deletes the other account
\* while tasks are created by or for that user, or handed to that user.
OwnTask ==
    [title |-> Str("t"), dueDate |-> FarDate, status |-> "pending",
     priority |-> "low", createdBy |-> 1, assignedTo |-> 1,
     completedAt |-> NullDate, notes |-> <<>>]
InitOrphans ==
    /\ users = [i \in 1..MaxUsers |-> SeedUser(i)]
    /\ nextUserId = MaxUsers + 1
    /\ tasks = [i \in {1} |-> OwnTask]
    /\ nextTaskId = 2
    /\ tokens = {[sub |-> i, iat |-> 0] : i \in 1..MaxUsers}
    /\ now = 0
    /\ resp = NoResp
    /\ calls = [c \in Conns |-> Idle]

OrphanCreateInputs ==
    [title : {Str("t")}, dueDate : {FarDate, PastDate}, priority : {Undef},
     assignedTo : {NoId, 2}]
OrphanUpdateInputs ==
    {[NoUpdate EXCEPT !.assignedTo = u] : u \in 2..GhostUser}
    \cup {[NoUpdate EXCEPT !.priority = "high"]}

NextOrphans ==
    \/ \E c \in Conns, cred \in Creds, id \in 1..MaxUsers : DeleteUserCheck(c, cred, id)
    \/ \E c \in Conns : DeleteUserWrite(c)
    \/ \E c \in Conns, cred \in Creds, in \in OrphanCreateInputs :
          CreateTaskCheck(c, cred, in)
    \/ \E c \in Conns : CreateTaskSave(c)
    \/ \E c \in Conns, cred \in Creds, in \in OrphanUpdateInputs :
          UpdateTaskRead(c, cred, 1, in)
    \/ \E c \in Conns : UpdateTaskWrite(c)

SpecOrphans == InitOrphans /\ [][NextOrphans]_vars

\* ------------------------- SpecHandover: a task changes hands mid-request
\* Two tasks, one the administrator created for the other user and one that
\* user created for themselves; over two connections they are edited, moved
\* to another status, handed over and deleted, and the requests interleave.
InitHandover ==
    /\ users = [i \in 1..MaxUsers |-> SeedUser(i)]
    /\ nextUserId = MaxUsers + 1
    /\ tasks = [i \in {1, 2} |->
                  IF i = 1 THEN RaceTask
                  ELSE [RaceTask EXCEPT !.createdBy = 2]]
    /\ nextTaskId = 3
    /\ tokens = {[sub |-> i, iat |-> 0] : i \in 1..MaxUsers}
    /\ now = 0
    /\ resp = NoResp
    /\ calls = [c \in Conns |-> Idle]

HandoverUpdateInputs ==
    {[NoUpdate EXCEPT !.assignedTo = 1], [NoUpdate EXCEPT !.priority = "high"]}
HandoverCreds == Creds \ {Forged(1)}

NextHandover ==
    \/ \E c \in Conns, cred \in HandoverCreds, id \in {1, 2}, in \in HandoverUpdateInputs :
          UpdateTaskRead(c, cred, id, in)
    \/ \E c \in Conns : UpdateTaskWrite(c)
    \/ \E c \in Conns, cred \in HandoverCreds, id \in {1, 2} :
          UpdateTaskStatusRead(c, cred, id, "completed")
    \/ \E c \in Conns : UpdateTaskStatusSave(c)
    \/ \E c \in Conns, cred \in HandoverCreds, id \in {1, 2} : DeleteTaskRead(c, cred, id)
    \/ \E c \in Conns : DeleteTaskWrite(c)

SpecHandover == InitHandover /\ [][NextHandover]_vars

\* ------------------------------ SpecAssignee: a task is handed back and forth
\* One task, created by the administrator for the other user; it is handed
\* to the administrator and back while both read it, edit it, change its
\* status and list their tasks.
AssigneeUpdateInputs ==
    {[NoUpdate EXCEPT !.assignedTo = u] : u \in 1..MaxUsers}
    \cup {[NoUpdate EXCEPT !.priority = "high"]}
AssigneeListInputs ==
    [assignedTo : {NoId, 1}, status : {Undef}, priority : {Undef},
     page : {DefaultPage}, limit : {DefaultLimit}, sortBy : {"dueDate"},
     sortOrder : {"asc"}]

NextAssignee ==
    \/ \E cred \in AccessCreds : GetTaskById(cred, 1)
    \/ \E cred \in AccessCreds, in \in AssigneeUpdateInputs : UpdateTask(cred, 1, in)
    \/ \E cred \in AccessCreds, st \in {"completed", "pending", "bogus"} :
          UpdateTaskStatus(cred, 1, st)
    \/ \E cred \in AccessCreds, q \in AssigneeListInputs : GetTasks(cred, q)
    \/ Tick

SpecAssignee == InitRace /\ [][NextAssignee]_vars

\* ------------------------------ SpecVanish: a record goes mid-update
\* The administrator has one task and the other user has none; over two
\* connections the task and the other account are edited and deleted, and
\* the requests interleave.
VanishTaskInputs ==
    {[NoUpdate EXCEPT !.priority = p] : p \in {"high", "bogus"}}
VanishUserInputs ==
    {[NoChange EXCEPT !.role = r] : r \in {"admin", "bogus"}}
    \cup {[NoChange EXCEPT !.username = n] : n \in {Str("bob"), Str("root")}}

NextVanish ==
    \/ \E c \in Conns, cred \in HandoverCreds, in \in VanishTaskInputs :
          UpdateTaskRead(c, cred, 1, in)
    \/ \E c \in Conns : UpdateTaskWrite(c)
    \/ \E c \in Conns, cred \in HandoverCreds : DeleteTaskRead(c, cred, 1)
    \/ \E c \in Conns : DeleteTaskWrite(c)
    \/ \E c \in Conns, cred \in HandoverCreds, in \in VanishUserInputs :
          UpdateUserRead(c, cred, MaxUsers, in)
    \/ \E c \in Conns : UpdateUserWrite(c)
    \/ \E c \in Conns, cred \in HandoverCreds : DeleteUserCheck(c, cred, MaxUsers)
    \/ \E c \in Conns : DeleteUserWrite(c)

SpecVanish == InitOrphans /\ [][NextVanish]_vars

\* ------------------------------------------- SpecPages: lists by the page
\* Tasks are created, some with the same due date, and the task list and
\* the user list are read page by page in every sort order.
PageCreateInputs ==
    [title : {Str("t")}, dueDate : {FarDate, FarDate + 1}, priority : {Undef, "high"},
     assignedTo : {NoId}]
PageNumbers == 1..(MaxTasks + 1)
PageLimits == 1..MaxTasks
PageTaskQueries ==
    [assignedTo : {NoId}, status : {Undef}, priority : {Undef, "high"},
     page : PageNumbers, limit : PageLimits, sortBy : {"dueDate", "createdAt"},
     sortOrder : {"asc", "desc"}]
PageUserQueries ==
    [role : {Undef, "user"}, isActive : {Undef}, page : PageNumbers, limit : PageLimits]

NextPages ==
    \/ \E cred \in Creds, in \in PageCreateInputs : CreateTask(cred, in)
    \/ \E cred \in Creds, q \in PageTaskQueries : GetTasks(cred, q)
    \/ \E cred \in Creds, q \in PageUserQueries : GetAllUsers(cred, q)

SpecPages == InitSeeded /\ [][NextPages]_vars

\* ------------------------------------------ SpecDue: due dates go by
\* Tasks are given due dates of today and of later days, the days pass, and
\* the tasks are read, edited and moved through the statuses after that.
Today == 0
DueCreateInputs ==
    [title : {Str("t")}, dueDate : {Today, FarDate, PastDate}, priority : {Undef},
     assignedTo : {NoId}]
DueUpdateInputs ==
    [dueDate : {NoDate, Today, FarDate}, priority : {Undef, "high"},
     status : {Undef, "completed"}, assignedTo : {NoId}]
DueCreds == {c \in CredsOf({2}) : c.kind = "bearer" /\ c.sig}

NextDue ==
    \/ \E cred \in DueCreds, in \in DueCreateInputs : CreateTask(cred, in)
    \/ \E cred \in DueCreds, id \in 1..MaxTasks : GetTaskById(cred, id)
    \/ \E cred \in DueCreds, id \in 1..MaxTasks, in \in DueUpdateInputs :
          UpdateTask(cred, id, in)
    \/ \E cred \in DueCreds, id \in 1..MaxTasks, st \in Statuses :
          UpdateTaskStatus(cred, id, st)
    \/ \E cred \in DueCreds, id \in 1..MaxTasks : UpdateTask(cred, id, BlankUpdate)
    \/ \E cred \in DueCreds, id \in 1..MaxTasks : UpdateTaskStatus(cred, id, "bogus")
    \/ Tick

SpecDue == InitSeeded /\ [][NextDue]_vars

\* --------------------------------- SpecInputs: requests with several faults
\* Tasks and accounts are created from bodies that are sound, that lack a
\* required field, that break a length or enum rule, or several at once.
InputsCreateTask ==
    [title : {Str("t"), EmptyStr}, dueDate : {NoDate, FarDate, PastDate},
     priority : {Undef, "high", "bogus"}, assignedTo : {NoId, GhostUser}]
InputsRegister ==
    [username : {Str("ann"), Str("al"), EmptyStr}, email : {Str("ann")},
     password : {"passw0rd", "pass", ""}]
InputsCreateUser ==
    [username : {Str("bob"), Str("al")}, email : {Str("bob")},
     password : {"passw0rd", "pass"}, role : {Undef, "bogus"}]

NextInputs ==
    \/ \E cred \in Creds, in \in InputsCreateTask : CreateTask(cred, in)
    \/ \E in \in InputsRegister : Register(in)
    \/ \E cred \in Creds, in \in InputsCreateUser : CreateUser(cred, in)

SpecInputs == InitFresh /\ [][NextInputs]_vars

\* ------------------------------------ SpecTokens: tokens grow old
\* The administrator signed in just now, the other user almost seven days
\* ago; they sign in again and call the server with old and new tokens and
\* with forged ones while the administrator switches the other account off
\* and on and deletes it.
TokenLifetime == ExpiresInDays * DayLen
InitTokens ==
    /\ users = [i \in 1..MaxUsers |-> SeedUser(i)]
    /\ nextUserId = MaxUsers + 1
    /\ tasks = <<>>
    /\ nextTaskId = 1
    /\ tokens = {[sub |-> 1, iat |-> 0]}
                    \cup {[sub |-> i, iat |-> 1 - TokenLifetime] : i \in 2..MaxUsers}
    /\ now = 0
    /\ resp = NoResp
    /\ calls = [c \in Conns |-> Idle]

TokenCreds == Creds \cup {Forged(u) : u \in 1..MaxUsers}
TokenLoginInputs == [email : {Str("root"), Str("ann")}, password : {"passw0rd"}]

NextTokens ==
    \/ \E in \in TokenLoginInputs : Login(in)
    \/ \E cred \in TokenCreds : GetMe(cred)
    \/ \E cred \in TokenCreds : GetTasksByPriority(cred, "medium")
    \/ \E cred \in TokenCreds, id \in 2..MaxUsers, in \in LoginUpdateInputs :
          UpdateUser(cred, id, in)
    \/ \E cred \in TokenCreds, id \in 2..MaxUsers : DeleteUser(cred, id)
    \/ Tick

SpecTokens == InitTokens /\ [][NextTokens]_vars

\* =================================================================== claims
Range(seq) == {seq[i] : i \in 1..Len(seq)}

\* C1: in every state reached by createTask, updateTask and setTaskStatus
\* calls, every stored task has completedAt non-null exactly when its
\* status is 'completed' (the general update included).
C1_CompletedAtIffCompleted ==
    \A t \in DOMAIN tasks :
        (tasks[t].completedAt # NullDate) <=> (tasks[t].status = "completed")

\* C2: a successful setTaskStatus(actor, id, s) on any stored task leaves it
\* with status s, with completedAt non-null when s is 'completed' and null
\* otherwise; a second identical call changes neither field.
C2_SetStatusDerivesCompletedAt ==
    [][\A cred \in LifeCreds, id \in 1..MaxTasks, st \in Statuses :
          (UpdateTaskStatus(cred, id, st) /\ resp'.kind = "Ok")
          => /\ tasks'[id].status = st
             /\ (tasks'[id].completedAt # NullDate) <=> (st = "completed")
             /\ (resp.op = "setTaskStatus" /\ resp.kind = "Ok" /\ resp.id = id
                 /\ tasks[id].status = st)
                => (tasks'[id].status = tasks[id].status
                    /\ tasks'[id].completedAt = tasks[id].completedAt)]_vars

\* A step is a call when the clock stands still; resp' is then the call's
\* response and the unprimed stores are what the call found.
IsCall(ops) == now' = now /\ resp'.op \in ops

RelatedTo(user, task) ==
    users[user].role = "admin" \/ task.createdBy = user \/ task.assignedTo = user

\* C3 as stated: for an existing task T and an authenticated actor A,
\* getTask, updateTask and setTaskStatus pass authorization exactly when A is
\* an admin, T's creator or T's assignee; every other call fails Forbidden
\* and leaves T unchanged.
C3_ForbiddenUnlessRelated ==
    [][(IsCall({"getTask", "updateTask", "setTaskStatus"})
        /\ resp'.actor # NoId /\ resp'.id \in DOMAIN tasks)
       => IF RelatedTo(resp'.actor, tasks[resp'.id])
          THEN resp'.kind \notin {"Forbidden", "Unauthorized", "NotFound"}
          ELSE resp'.kind = "Forbidden" /\ tasks' = tasks]_vars

\* C4: deleteTask on an existing task removes it exactly when the actor is
\* an admin or the task's creator; an assignee-only or unrelated non-admin
\* gets Forbidden and the task stays stored unchanged.
C4_DeleteOnlyByCreatorOrAdmin ==
    [][(IsCall({"deleteTask"}) /\ resp'.actor # NoId /\ resp'.id \in DOMAIN tasks)
       => IF users[resp'.actor].role = "admin"
             \/ tasks[resp'.id].createdBy = resp'.actor
          THEN resp'.kind = "Ok" /\ tasks' = Remove(tasks, resp'.id)
          ELSE resp'.kind = "Forbidden" /\ tasks' = tasks]_vars

\* The assignee of somebody else's task has just been refused its deletion.
W_C4_AssigneeRefused ==
    /\ resp.op = "deleteTask"
    /\ resp.kind = "Forbidden"
    /\ resp.id \in DOMAIN tasks
    /\ tasks[resp.id].assignedTo = resp.actor
    /\ tasks[resp.id].createdBy # resp.actor

\* C5: for a non-admin actor every task returned by listTasks and by the
\* by-priority listing is assigned to the actor, whatever assignedTo the
\* request supplies (the full own list comes back); for an admin a supplied
\* assignedTo filter selects exactly that user's tasks.
C5_ListsScopedToActor ==
    (resp.kind = "Ok" /\ resp.op \in {"listTasks", "listByPriority"})
    => IF users[resp.actor].role # "admin"
       THEN /\ \A t \in Range(resp.list) : tasks[t].assignedTo = resp.actor
            /\ resp.op = "listTasks"
               => Range(resp.list) =
                    {t \in DOMAIN tasks : tasks[t].assignedTo = resp.actor}
       ELSE (resp.op = "listTasks" /\ resp.id # NoId)
            => Range(resp.list) =
                  {t \in DOMAIN tasks : tasks[t].assignedTo = resp.id}

\* A non-admin asked for the tasks of another user, who has some, and was
\* answered with a non-empty list.
W_C5_ForeignFilterIgnored ==
    /\ resp.op = "listTasks" /\ resp.kind = "Ok"
    /\ users[resp.actor].role = "user"
    /\ resp.id \notin {NoId, resp.actor}
    /\ \E t \in DOMAIN tasks : tasks[t].assignedTo = resp.id
    /\ resp.list # <<>>

OpNames ==
    {"register", "login", "getSelf", "updateSelf", "listUsers", "getUser",
     "createUser", "updateUser", "deleteUser", "listAssignableUsers",
     "createTask", "getTask", "updateTask", "setTaskStatus", "deleteTask",
     "listTasks", "listByPriority"}
UserManagementOps == {"listUsers", "getUser", "createUser", "updateUser", "deleteUser"}

\* The credential is a token the server signed, not yet expired, whose
\* subject is a stored, active account.
CredOk(c) ==
    /\ c.kind = "bearer" /\ c.sig
    /\ now < c.iat + ExpiresInDays * DayLen
    /\ c.sub \in DOMAIN users
    /\ users[c.sub].isActive

\* C6: listUsers, getUser, createUser, updateUser and deleteUser fail
\* Forbidden for every authenticated non-admin and Unauthorized for an
\* unauthenticated caller, changing no user or task record; without
\* authentication only register and login are available.
C6_UserManagementAdminOnly ==
    [][IsCall(OpNames)
       => /\ (resp'.op \notin {"register", "login"} /\ ~CredOk(resp'.cred))
             => (resp'.kind = "Unauthorized" /\ UNCHANGED <<users, tasks>>)
          /\ (resp'.op \in UserManagementOps /\ CredOk(resp'.cred)
              /\ users[resp'.cred.sub].role # "admin")
             => (resp'.kind = "Forbidden" /\ UNCHANGED <<users, tasks>>)]_vars

\* A signed-in non-admin has just been refused the deletion of an account.
W_C6_NonAdminRefused ==
    /\ resp.op = "deleteUser" /\ resp.kind = "Forbidden"
    /\ resp.id \in DOMAIN users /\ resp.id # resp.cred.sub
    /\ CredOk(resp.cred)

\* C7: while a user's isActive flag is false, a login naming that user with
\* a password fails Unauthorized and issues no token, and every operation
\* behind the auth middleware fails Unauthorized for every token issued to
\* that user: the flag is read from the store on each request.
C7_InactiveShutOut ==
    [][IsCall(OpNames)
       => /\ (resp'.op = "login" /\ resp'.id \in DOMAIN users
              /\ ~users[resp'.id].isActive)
             => (resp'.kind = "Unauthorized" /\ tokens' = tokens)
          /\ \A t \in tokens' \ tokens :
                t.sub \in DOMAIN users' /\ users'[t.sub].isActive
          /\ (resp'.op \notin {"register", "login"}
              /\ resp'.cred.kind = "bearer" /\ resp'.cred.sig
              /\ [sub |-> resp'.cred.sub, iat |-> resp'.cred.iat] \in tokens
              /\ resp'.cred.sub \in DOMAIN users
              /\ ~users[resp'.cred.sub].isActive)
             => (resp'.kind = "Unauthorized" /\ UNCHANGED <<users, tasks>>)]_vars

\* A request carrying the token of a stored account that has been
\* deactivated has just been turned away.
W_C7_TokenOfInactiveRefused ==
    /\ resp.op \in OpNames \ {"register", "login"}
    /\ resp.kind = "Unauthorized"
    /\ resp.cred.sig
    /\ resp.cred.sub \in DOMAIN users
    /\ ~users[resp.cred.sub].isActive
    /\ users[resp.cred.sub].role = "user"

\* C8: deleteUser on a user that is createdBy or assignedTo of some task is
\* rejected and deletes nothing, deleteUser on another user whom no task
\* references succeeds, and in every state every task's createdBy and
\* assignedTo are stored users.
Referenced(id) ==
    \E t \in DOMAIN tasks : tasks[t].createdBy = id \/ tasks[t].assignedTo = id

C8_NoDanglingReferences ==
    [][/\ \A t \in DOMAIN tasks' :
             tasks'[t].createdBy \in DOMAIN users'
             /\ tasks'[t].assignedTo \in DOMAIN users'
       /\ (IsCall({"deleteUser"}) /\ resp'.kind \notin {"Unauthorized", "Forbidden"}
           /\ resp'.id \in DOMAIN users)
          => IF Referenced(resp'.id)
             THEN resp'.kind # "Ok" /\ users' = users
             ELSE IF resp'.id # resp'.actor
                  THEN resp'.kind = "Ok" /\ users' = Remove(users, resp'.id)
                  ELSE users' = users]_vars

\* The deletion of a user who created a task now assigned to somebody else
\* has just been rejected.
W_C8_CreatorKept ==
    /\ resp.op = "deleteUser" /\ resp.kind = "Rejected"
    /\ resp.id # resp.actor
    /\ resp.id \in DOMAIN users
    /\ \E t \in DOMAIN tasks : tasks[t].createdBy = resp.id
    /\ \A t \in DOMAIN tasks : tasks[t].assignedTo # resp.id

\* C9: an admin's updateUser on their own id with isActive false and an
\* admin's deleteUser on their own id are rejected, so no user-management
\* call an admin makes on their own id leaves that account inactive or absent.
C9_AdminKeepsOwnAccount ==
    [][(IsCall({"updateUser", "deleteUser"}) /\ resp'.actor # NoId
        /\ resp'.id = resp'.actor)
       => (resp'.id \in DOMAIN users' /\ users'[resp'.id].isActive)]_vars

\* C10: in every state reached by register, createUser, updateUser and
\* updateSelf no two user records share a username or an email; a call that
\* would give a record a username or email held by another record is
\* rejected with Conflict and changes nothing; re-submitting the record's
\* own username or email is not a conflict.
UniqueUsers ==
    \A u, v \in DOMAIN users :
        u # v => users[u].username # users[v].username
                 /\ users[u].email # users[v].email

NameHeld(id, name) ==
    Truthy(name) /\ \E u \in DOMAIN users \ {id} : users[u].username = Trim(name)
EmailHeld(id, email) ==
    Truthy(email)
    /\ \E u \in DOMAIN users \ {id} : users[u].email = Lowercase(Trim(email))

Conflicts(held) ==
    IF held THEN resp'.kind = "Conflict" /\ users' = users
    ELSE resp'.kind \notin {"Conflict", "Unexpected"}

C10_UsernamesAndEmailsUnique ==
    [][/\ UniqueUsers'
       /\ IsCall({"register"})
          => \A in \in RegisterInputs :
                (Register(in) /\ Truthy(in.username) /\ Truthy(in.email)
                 /\ PwTruthy(in.password))
                => Conflicts(NameHeld(NoId, in.username) \/ EmailHeld(NoId, in.email))
       /\ (IsCall({"createUser"}) /\ resp'.kind \notin {"Unauthorized", "Forbidden"})
          => \A in \in CreateUserInputs :
                (CreateUser(resp'.cred, in) /\ Truthy(in.username)
                 /\ Truthy(in.email) /\ PwTruthy(in.password))
                => Conflicts(NameHeld(NoId, in.username) \/ EmailHeld(NoId, in.email))
       /\ (IsCall({"updateSelf"}) /\ resp'.kind # "Unauthorized")
          => \A in \in ProfileInputs :
                UpdateProfile(resp'.cred, in)
                => Conflicts(NameHeld(resp'.actor, in.username))
       /\ (IsCall({"updateUser"}) /\ resp'.kind \notin {"Unauthorized", "Forbidden"}
           /\ resp'.id \in DOMAIN users)
          => \A in \in UpdateUserInputs :
                (UpdateUser(resp'.cred, resp'.id, in)
                 /\ ~(resp'.id = resp'.actor /\ in.isActive = JFalse))
                => Conflicts(NameHeld(resp'.id, in.username)
                             \/ EmailHeld(resp'.id, in.email))]_vars

\* An administrator's attempt to give one account the username of another
\* has just been rejected.
W_C10_TakenNameRejected ==
    /\ resp.op = "updateUser" /\ resp.kind = "Conflict"
    /\ Cardinality(DOMAIN users) >= 2
    /\ resp.id \in DOMAIN users

\* C11: login(email, password) returns a token if and only if a user with
\* that email exists, is active and the password is the one the account was
\* registered with, and the token's subject is that user; in particular,
\* right after a successful register, login with the registered email
\* succeeds with the registered password, resolves to the created user, and
\* fails Unauthorized with every other password.
C11_LoginIffRegisteredPassword ==
    [][(IsCall({"register"}) /\ resp'.kind = "Ok")
       => \A in \in LoginRegisterInputs :
             Register(in)
             => \A p \in Passwords :
                   LET o == LoginOutcome([email |-> in.email, password |-> p])'
                   IN  IF p = in.password
                       THEN o.kind = "Ok" /\ o.user = resp'.id
                       ELSE o.kind = "Unauthorized"]_vars

\* C12: when two updateTask calls on one task run concurrently, the stored
\* record holds, for every field both supplied, the value of the write made
\* later, for a field one of them supplied that call's value, and for every
\* other field its prior value; neither caller is told of a conflict: a
\* call that passed its checks is answered Ok unless its own values are
\* invalid.
Written(n) ==
    LET ws == {c \in Conns : calls[c].phase = "done" /\ calls[c].seq = n
                              /\ calls[c].kind = "Ok"}
    IN  IF ws = {} THEN NoUpdate ELSE calls[CHOOSE c \in ws : TRUE].in

LastWrite(prior, first, second, none) ==
    IF second # none THEN second ELSE IF first # none THEN first ELSE prior

C12_LastWriterWins ==
    /\ tasks[1] =
          [RaceTask EXCEPT
              !.dueDate = LastWrite(@, Written(1).dueDate, Written(2).dueDate, NoDate),
              !.priority = LastWrite(@, Written(1).priority, Written(2).priority, Undef),
              !.status = LastWrite(@, Written(1).status, Written(2).status, Undef),
              !.assignedTo = LastWrite(@, Written(1).assignedTo, Written(2).assignedTo, NoId)]
    /\ \A c \in Conns :
          calls[c].phase = "done"
          => IF calls[c].in.priority \in Priorities \cup {Undef}
             THEN calls[c].kind = "Ok"
             ELSE calls[c].kind = "Validation"

\* Both requests read the task before either wrote; both set the priority,
\* to different values, one of them also the status, neither the assignee.
W_C12_BothReadThenBothWrote ==
    /\ \A c \in Conns : calls[c].phase = "done" /\ calls[c].saw = 0
                          /\ calls[c].kind = "Ok"
                          /\ calls[c].in.assignedTo = NoId
    /\ Written(1).priority = "high" /\ Written(2).priority = "urgent"
    /\ Written(1).status = "in-progress" /\ Written(2).status = Undef
    /\ calls["a"].actor # calls["b"].actor

\* C13: for any filter, sort key, sort order and limit >= 1, with the store
\* unchanged between the calls, the pages listTasks returns are pairwise
\* disjoint, each holds at most limit tasks, and together they are exactly
\* the tasks matching the actor-scoped filter, also when tasks tie on the
\* sort key. Stated of two calls in a row that differ in the page only.
Matching(user, q) ==
    {t \in DOMAIN tasks : Matches(tasks[t], GetTasksQuery(user, q))}

C13_PagesPartitionTheMatches ==
    [][(/\ IsCall({"listTasks"}) /\ resp'.kind = "Ok"
        /\ resp.op = "listTasks" /\ resp.kind = "Ok"
        /\ resp'.actor = resp.actor
        /\ [resp'.query EXCEPT !.page = 0] = [resp.query EXCEPT !.page = 0]
        /\ resp'.query.page # resp.query.page)
       => /\ Len(resp'.list) <= resp'.query.limit
          /\ Range(resp'.list) \cap Range(resp.list) = {}
          /\ ({resp.query.page, resp'.query.page} = {1, 2}
              /\ resp'.pagination.totalPages = 2)
             => Range(resp'.list) \cup Range(resp.list)
                = Matching(resp'.actor, resp'.query)]_vars

\* C14: for every listTasks and listUsers call with page >= 1 and
\* limit >= 1 the reported totalPages is ceil(total / limit), hasNext is
\* (currentPage < totalPages) and hasPrev is (currentPage > 1), total being
\* the number of records matching the actor-scoped filter that produced the
\* page; a page beyond totalPages has no records and hasNext false.
MatchingUsers(q) ==
    {u \in DOMAIN users :
        /\ q.role # Undef => users[u].role = q.role
        /\ q.isActive # Undef => users[u].isActive = (q.isActive = "true")}

\* The least number of pages of the given size that hold total records.
PagesFor(total, limit) ==
    CHOOSE n \in 0..total : n * limit >= total /\ \A m \in 0..total : m * limit >= total => n <= m

C14_PaginationArithmetic ==
    (resp.op \in {"listTasks", "listUsers"} /\ resp.kind = "Ok")
    => LET total == IF resp.op = "listTasks"
                    THEN Cardinality(Matching(resp.actor, resp.query))
                    ELSE Cardinality(MatchingUsers(resp.query))
           pages == PagesFor(total, resp.query.limit)
       IN  /\ resp.pagination.total = total
           /\ resp.pagination.currentPage = resp.query.page
           /\ resp.pagination.totalPages = pages
           /\ resp.pagination.hasNext = (resp.query.page < pages)
           /\ resp.pagination.hasPrev = (resp.query.page > 1)
           /\ resp.query.page > pages
              => (resp.list = <<>> /\ ~resp.pagination.hasNext)

\* The page after the last one of a list of several tasks has been read.
W_C14_PageBeyondTheLast ==
    /\ resp.op = "listTasks" /\ resp.kind = "Ok"
    /\ resp.pagination.total >= 2
    /\ resp.pagination.totalPages >= 2
    /\ resp.query.page = resp.pagination.totalPages + 1
    /\ resp.list = <<>>
    /\ resp.pagination.hasPrev

\* C15: for every task and every read time, the isOverdue value reported
\* on a read is (status is not completed and now > dueDate): a completed
\* task is never overdue, a pending, in-progress or cancelled one is once
\* its due date has passed; the value is derived at the read, not stored.
ReadOps == {"getTask", "listTasks", "listByPriority"}

C15_IsOverdueOnRead ==
    [][/\ \A t \in DOMAIN tasks' : "isOverdue" \notin DOMAIN tasks'[t]
       /\ (IsCall(ReadOps) /\ resp'.kind = "Ok")
          => /\ Len(resp'.isOverdue) = Len(resp'.list)
             /\ \A i \in 1..Len(resp'.list) :
                   resp'.isOverdue[i]
                   <=> (tasks[resp'.list[i]].status # "completed"
                        /\ now > tasks[resp'.list[i]].dueDate)]_vars

\* A completed task whose due date has passed has been read and reported
\* as not overdue.
W_C15_CompletedPastDueNotOverdue ==
    /\ resp.op = "getTask" /\ resp.kind = "Ok"
    /\ resp.id \in DOMAIN tasks
    /\ tasks[resp.id].status = "completed"
    /\ now > tasks[resp.id].dueDate
    /\ resp.isOverdue = <<FALSE>>

\* C16: the due-date check (dueDate >= start of the current day) applies
\* only when dueDate itself is written, by createTask or by an updateTask
\* that supplies it: once a stored task's dueDate lies before the current
\* day, setTaskStatus and every updateTask that does not supply dueDate
\* still succeed on it for an actor allowed to edit the task.
C16_DueDateCheckedOnlyWhenWritten ==
    [][(/\ IsCall({"setTaskStatus", "updateTask"})
        /\ resp'.actor # NoId /\ resp'.id \in DOMAIN tasks
        /\ RelatedTo(resp'.actor, tasks[resp'.id])
        /\ tasks[resp'.id].dueDate < now - (now % DayLen))
       => /\ resp'.op = "setTaskStatus"
             => \A st \in Statuses :
                   UpdateTaskStatus(resp'.cred, resp'.id, st) => resp'.kind = "Ok"
          /\ resp'.op = "updateTask"
             => \A in \in DueUpdateInputs :
                   UpdateTask(resp'.cred, resp'.id, in)
                   => IF in.dueDate = NoDate \/ in.dueDate >= now - (now % DayLen)
                      THEN resp'.kind = "Ok"
                      ELSE resp'.kind = "Validation" /\ tasks' = tasks]_vars

\* C17: every task createTask creates has createdBy equal to the calling
\* actor whatever the request carries, status pending, completedAt null, and
\* assignedTo equal to the actor when no assignee is given or to the given
\* user when that user exists; when the given assignee id does not resolve
\* to an existing user the call fails Validation and no task is created.
C17_CreateTaskOwnership ==
    [][(IsCall({"createTask"}) /\ resp'.actor # NoId)
       => \A in \in AccessCreateInputs :
             CreateTask(resp'.cred, in)
             => IF in.assignedTo # NoId /\ in.assignedTo \notin DOMAIN users
                THEN resp'.kind = "Validation" /\ tasks' = tasks
                ELSE /\ resp'.kind = "Ok"
                     /\ resp'.id \notin DOMAIN tasks
                     /\ tasks' = Insert(tasks, resp'.id, tasks'[resp'.id])
                     /\ tasks'[resp'.id].createdBy = resp'.actor
                     /\ tasks'[resp'.id].status = "pending"
                     /\ tasks'[resp'.id].completedAt = NullDate
                     /\ tasks'[resp'.id].assignedTo =
                           IF in.assignedTo = NoId THEN resp'.actor ELSE in.assignedTo]_vars

\* C18: updateSelf changes at most the actor's own firstName, lastName and
\* username: for every input it leaves the actor's role, isActive, email and
\* password digest unchanged, every other user record unchanged, and adds
\* and removes no record.
C18_UpdateSelfFrame ==
    [][IsCall({"updateSelf"})
       => /\ DOMAIN users' = DOMAIN users
          /\ tasks' = tasks
          /\ \A u \in DOMAIN users :
                IF u = resp'.actor
                THEN /\ users'[u].role = users[u].role
                     /\ users'[u].isActive = users[u].isActive
                     /\ users'[u].email = users[u].email
                     /\ users'[u].password = users[u].password
                ELSE users'[u] = users[u]]_vars

\* The administrator has taken a new username through updateSelf while
\* another account exists.
W_C18_RenamedSelf ==
    /\ resp.op = "updateSelf" /\ resp.kind = "Ok"
    /\ resp.actor \in DOMAIN users
    /\ users[resp.actor].username # SeedUser(resp.actor).username
    /\ Cardinality(DOMAIN users) >= 2

\* C19: an updateTask call whose supplied fields do not include status
\* leaves the task's status and its completedAt unchanged, whatever other
\* fields it changes, and leaves every other task alone.
C19_UpdateWithoutStatusFrame ==
    [][(IsCall({"updateTask"}) /\ resp'.id \in DOMAIN tasks)
       => \A in \in DueUpdateInputs :
             (UpdateTask(resp'.cred, resp'.id, in) /\ in.status = Undef)
             => /\ DOMAIN tasks' = DOMAIN tasks
                /\ tasks'[resp'.id].status = tasks[resp'.id].status
                /\ tasks'[resp'.id].completedAt = tasks[resp'.id].completedAt
                /\ \A t \in DOMAIN tasks \ {resp'.id} : tasks'[t] = tasks[t]]_vars

\* A task moved to in-progress through setTaskStatus has then been given
\* another priority by an update that carried no status.
W_C19_PriorityChangedStatusKept ==
    /\ resp.op = "updateTask" /\ resp.kind = "Ok"
    /\ resp.id \in DOMAIN tasks
    /\ tasks[resp.id].status = "in-progress"
    /\ tasks[resp.id].priority = "high"

\* C20: a task's status is one of pending, in-progress, completed and
\* cancelled in every reachable state; setTaskStatus accepts every one of
\* the 16 (current, requested) pairs of them for an actor allowed to edit
\* the task, leaving completed and cancelled included; a status outside
\* the four fails Validation through setTaskStatus and through updateTask
\* and leaves the task unchanged.
C20_AnyStatusToAnyStatus ==
    [][/\ \A t \in DOMAIN tasks' : tasks'[t].status \in Statuses
       /\ (/\ IsCall({"setTaskStatus", "updateTask"})
           /\ resp'.actor # NoId /\ resp'.id \in DOMAIN tasks
           /\ RelatedTo(resp'.actor, tasks[resp'.id]))
          => /\ resp'.op = "setTaskStatus"
                => \A st \in Statuses \cup {"bogus"} :
                      UpdateTaskStatus(resp'.cred, resp'.id, st)
                      => IF st \in Statuses
                         THEN resp'.kind = "Ok" /\ tasks'[resp'.id].status = st
                         ELSE resp'.kind = "Validation" /\ tasks' = tasks
             /\ (resp'.op = "updateTask"
                 /\ UpdateTask(resp'.cred, resp'.id, BlankUpdate))
                => (resp'.kind = "Validation" /\ tasks' = tasks)]_vars

\* The outcomes of the error taxonomy; "Rejected" is the refusal to delete
\* or switch off an account (own account, account with tasks).
Failures ==
    {"Validation", "Unauthorized", "Forbidden", "NotFound", "Conflict",
     "Unexpected", "Rejected"}
Outcomes == Failures \cup {"Ok"}

TaskProblems(in) ==
    {f \in {"title", "dueDate", "priority", "assignedTo"} :
        \/ f = "title" /\ ~Truthy(in.title)
        \/ f = "dueDate" /\ (in.dueDate = NoDate \/ ~DueDateValidator(in.dueDate))
        \/ f = "priority" /\ in.priority # Undef /\ in.priority \notin Priorities
        \/ f = "assignedTo" /\ in.assignedTo # NoId /\ in.assignedTo \notin DOMAIN users}

UserProblems(in, role) ==
    {f \in {"username", "email", "password", "role"} :
        \/ f = "username" /\ UsernameLength(UsernameSetter(in.username)) < 3
        \/ f = "email" /\ ~Truthy(in.email)
        \/ f = "password" /\ PasswordLength(in.password) < 6
        \/ f = "role" /\ role # Undef /\ role \notin Roles}

\* C22: when the input to createTask, register or createUser has several
\* problems at once, the single Validation outcome reports a message for
\* every offending field, not only for the first problem detected.
C22_ValidationReportsEveryField ==
    [][(IsCall({"createTask", "register", "createUser"}) /\ resp'.kind = "Validation")
       => /\ \A in \in InputsCreateTask :
                CreateTask(resp'.cred, in) => TaskProblems(in) \subseteq resp'.errors
          /\ \A in \in InputsRegister :
                Register(in) => UserProblems(in, Undef) \subseteq resp'.errors
          /\ \A in \in InputsCreateUser :
                CreateUser(resp'.cred, in)
                => UserProblems(in, in.role) \subseteq resp'.errors]_vars

\* C23: a token issued for user U at time t authenticates requests as U at
\* every time before t + 7 days while U exists and is active, and is
\* rejected as Unauthorized at every time after t + 7 days; a token with an
\* invalid signature and a valid token whose subject no longer exists are
\* rejected as Unauthorized and never resolve to any actor.
C23_TokenLivesSevenDays ==
    [][(IsCall({"getSelf", "listByPriority", "updateUser", "deleteUser"})
        /\ resp'.cred.kind = "bearer")
       => LET c == resp'.cred
          IN  /\ (/\ c.sig /\ now < c.iat + ExpiresInDays * DayLen
                  /\ c.sub \in DOMAIN users /\ users[c.sub].isActive)
                 => (resp'.actor = c.sub /\ resp'.kind # "Unauthorized")
              /\ (\/ ~c.sig
                  \/ now > c.iat + ExpiresInDays * DayLen
                  \/ c.sub \notin DOMAIN users)
                 => (resp'.kind = "Unauthorized" /\ resp'.actor = NoId)]_vars

\* A token the server signed more than seven days ago, of an account that
\* still exists and is active, has just been refused.
W_C23_ExpiredTokenRefused ==
    /\ resp.op = "getSelf"
    /\ resp.kind = "Unauthorized"
    /\ resp.cred.kind = "bearer" /\ resp.cred.sig
    /\ now > resp.cred.iat + ExpiresInDays * DayLen
    /\ resp.cred.sub \in DOMAIN users
    /\ users[resp.cred.sub].isActive

\* C24: when two setTaskStatus calls on the same task interleave, the task
\* stored after both calls have completed still has completedAt non-null
\* if and only if its status is 'completed'.
C24_InterleavedStatusKeepsCompletedAt ==
    (\A c \in Conns : calls[c].op = "setTaskStatus" /\ calls[c].phase = "done")
    => \A t \in DOMAIN tasks :
          (tasks[t].completedAt # NullDate) <=> (tasks[t].status = "completed")

\* C25: when deleteUser(U) interleaves with a createTask or updateTask
\* that names U as assignee, or with a createTask issued by U, no
\* interleaving of the handlers' check and write steps ends in a state
\* where a stored task's createdBy or assignedTo refers to a user that no
\* longer exists.
C25_NoOrphanAfterInterleaving ==
    (\A c \in Conns : calls[c].phase # "checked")
    => \A t \in DOMAIN tasks :
          tasks[t].createdBy \in DOMAIN users /\ tasks[t].assignedTo \in DOMAIN users

\* C26: no operation performed by an unauthenticated or non-admin actor
\* changes an existing user's role or isActive flag, and register always
\* creates an account with role 'user' whatever the request contains; an
\* account with role 'admin' arises only from createUser or updateUser
\* executed by an admin.
C26_RolesChangeOnlyThroughAdmins ==
    [][now' = now
       => /\ (resp'.actor = NoId \/ users[resp'.actor].role # "admin")
             => /\ \A u \in DOMAIN users \cap DOMAIN users' :
                      /\ users'[u].role = users[u].role
                      /\ users'[u].isActive = users[u].isActive
                /\ \A u \in DOMAIN users' \ DOMAIN users : users'[u].role = "user"
          /\ resp'.op = "register"
             => \A u \in DOMAIN users' \ DOMAIN users : users'[u].role = "user"
          /\ (\E u \in DOMAIN users' :
                  /\ users'[u].role = "admin"
                  /\ u \in DOMAIN users => users[u].role # "admin")
             => /\ resp'.op \in {"createUser", "updateUser"}
                /\ resp'.actor # NoId
                /\ users[resp'.actor].role = "admin"]_vars

\* Somebody has just registered, next to an administrator, and holds an
\* account with role 'user'.
W_C26_RegisteredAsUser ==
    /\ resp.op = "register"
    /\ resp.kind = "Ok"
    /\ resp.id \in DOMAIN users
    /\ users[resp.id].role = "user"
    /\ \E u \in DOMAIN users : users[u].role = "admin"

\* C27: starting from a state with at least one active admin account,
\* every state reachable through createUser, updateUser (role and isActive
\* changes included) and deleteUser still contains at least one active
\* account with role admin.
C27_AlwaysAnActiveAdmin ==
    \E u \in DOMAIN users : users[u].role = "admin" /\ users[u].isActive

\* C28: every write or delete applied to a task on behalf of a non-admin
\* actor is applied in a store state in which that actor is the task's
\* creator or assignee (creator, for delete), even when the handler's
\* permission check and its later write are interleaved with another
\* actor's reassignment of the same task.
C28_WritesOnlyWhileRelated ==
    [][\A c \in Conns :
          (/\ calls[c].phase = "checked" /\ calls'[c].phase = "done"
           /\ calls'[c].kind = "Ok"
           /\ calls[c].id \in DOMAIN tasks
           /\ users[calls[c].actor].role # "admin")
          => IF calls[c].op = "deleteTask"
             THEN tasks[calls[c].id].createdBy = calls[c].actor
             ELSE \/ tasks[calls[c].id].createdBy = calls[c].actor
                  \/ tasks[calls[c].id].assignedTo = calls[c].actor]_vars

\* C29: a task's createdBy never changes after creation, and access follows
\* the current assignee: once updateTask has moved assignedTo from A to B, a
\* non-admin A who is not the creator is Forbidden on getTask, updateTask
\* and setTaskStatus for the task and no longer receives it from listTasks,
\* while B is permitted and receives it.
C29_AccessFollowsAssignee ==
    [][/\ \A t \in DOMAIN tasks \cap DOMAIN tasks' :
             tasks'[t].createdBy = tasks[t].createdBy
       /\ (/\ IsCall({"getTask", "updateTask", "setTaskStatus"})
           /\ resp'.actor # NoId /\ resp'.id \in DOMAIN tasks
           /\ users[resp'.actor].role # "admin"
           /\ tasks[resp'.id].createdBy # resp'.actor)
          => IF tasks[resp'.id].assignedTo = resp'.actor
             THEN resp'.kind \notin {"Forbidden", "Unauthorized", "NotFound"}
             ELSE resp'.kind = "Forbidden"
       /\ (/\ IsCall({"listTasks"}) /\ resp'.kind = "Ok"
           /\ users[resp'.actor].role # "admin")
          => Range(resp'.list) =
                {t \in DOMAIN tasks : tasks[t].assignedTo = resp'.actor}]_vars

\* C30: updateTask and updateUser report success only when the target
\* record exists at the moment the write is applied, and the success
\* outcome carries the updated record; if the record is deleted between
\* the handler's existence check and its write, the outcome is NotFound
\* rather than success with no record.
C30_SuccessOnlyForAStoredRecord ==
    [][\A c \in Conns :
          (/\ calls[c].phase = "checked" /\ calls'[c].phase = "done"
           /\ calls[c].op \in {"updateTask", "updateUser"})
          => LET stored == IF calls[c].op = "updateTask"
                           THEN calls[c].id \in DOMAIN tasks
                           ELSE calls[c].id \in DOMAIN users
             IN  /\ resp'.kind = "Ok" => (stored /\ resp'.list = <<calls[c].id>>)
                 /\ ~stored => resp'.kind \in {"NotFound", "Validation"}]_vars

====
